---- MODULE Spec2Model ----
(***************************************************************************)
(* A model of the OpenCL wrapper (compute.hpp / compute.cpp, the later of  *)
(* the two versions kept in the sources: compute.hpp lines 352-835 and     *)
(* unnamed/part_000 lines 231-511).                                        *)
(*                                                                         *)
(* Several specifications share the module:                                *)
(*   Spec          Device::Device run by several threads: GPU enumeration, *)
(*                 the DeviceSelector critical section, context and queue. *)
(*   LifeSpec      Device::Device from the platform selection on, and the  *)
(*                 destruction of Devices.                                 *)
(*   BufferSpec    Buffer<T>: construction, host resizes, assignment,      *)
(*                 CopyToDevice / SyncGPUBuffer, CopyToHost, destruction,  *)
(*                 against a driver that hands out memory objects.         *)
(*   TransferSpec  Buffer<T>: CopyToDeviceBuffer and FillDeviceBuffer.     *)
(*   KernelSpec    Kernel::operator(): argument binding and launch.        *)
(*   LaunchSpec    Kernel::operator() over every Dim.                      *)
(*   QueueSpec, RoundTripSpec   the operations on the command queue, with  *)
(*                 Device::Wait and the contents of host and device.       *)
(*   ProgramSpec   Program and Kernel construction.                        *)
(*   EventSpec     the event-tracking Device of the earlier version.       *)
(*   StorageSpec   Buffer<T>: the storage of the host sequence under a     *)
(*                 pending transfer.                                       *)
(*   AssignSpec    Buffer<T>: copy construction and assignment, with the   *)
(*                 host contents and the Device references.                *)
(* The driver is an external collaborator: every driver call returns       *)
(* either CL_SUCCESS or an error, chosen nondeterministically; the code's  *)
(* OclCheckError macro turns an error into abort().                        *)
(***************************************************************************)
EXTENDS Integers, Sequences, FiniteSets, TLC

(***************************************************************************)
(* Bounds of the model.                                                    *)
(***************************************************************************)
NumDevices == 3          \* GPU devices the platform can enumerate
MaxConstructions == 4    \* Device constructions started in one run
MaxSize == 3             \* largest host element count of a Buffer
MaxAllocs == 3           \* device memory objects the driver hands out
MaxArity == 3            \* arguments of a Kernel call (the code has overloads up to 10)
MaxCommands == 3         \* commands enqueued on the command queue in one run

Threads == {1, 2}
Devices == 1 .. NumDevices
NoThread == 0
NullHandle == 0          \* NULL: cl_device_id / cl_mem

\* The GPU models the platform may hold: <<max compute units, max clock frequency>>.
\* Two of them tie on the product with different factors.
GpuModels == {<<2, 3>>, <<3, 2>>, <<2, 2>>}

Buffers == {1, 2}
ElemSizes == {4, 8}      \* sizeof(T): int, unsigned, float / double, long

VARIABLES
    \* ---- the process
    aborted,        \* abort() was called (or the process crashed)
    \* ---- the hardware, fixed for a run
    units,          \* [Devices -> Nat]  max compute units of each GPU
    freq,           \* [Devices -> Nat]  max clock frequency of each GPU
    \* ---- Device::DeviceSelector (static members)
    lock_,          \* the thread holding DeviceSelector::lock_, or NoThread
    ids_,           \* DeviceSelector::ids_ : sequence of device handles
    next_,          \* DeviceSelector::next_
    \* ---- each thread's Device under construction
    pc,             \* [Threads -> position in Device::Device]
    device_count,   \* [Threads -> the local device_count]
    device_id_,     \* [Threads -> Device::device_id_]
    \* ---- history of the run (not program state)
    constructions,  \* constructors started
    selected,       \* handles read from ids_, in the order of the selections
    populatedFrom,  \* the device_count of the constructor that last pushed into ids_
    completed,      \* constructors that returned
    populations,    \* how many constructors pushed handles into ids_
    emptyIndexed,   \* ids_[...] was evaluated on an empty ids_
    \* ---- Buffer<T>
    sizeofT,        \* sizeof(T)
    alive,          \* [Buffers -> BOOLEAN] the object exists
    hsize,          \* [Buffers -> std::vector<T>::size()]
    device_buffer_, \* [Buffers -> cl_mem or NullHandle]
    \* ---- the driver's memory objects
    nextMem,        \* handles 1 .. nextMem-1 have been created
    memSize,        \* [handle -> CL_MEM_SIZE]
    memReleases,    \* [handle -> number of clReleaseMemObject calls on it]
    \* ---- the driver calls of the last Buffer operation, in order
    lastOp,         \* [op, buf] the last Buffer operation
    calls,          \* sequence of [call, mem, bytes, blocking]
    \* ---- Kernel::operator(): the call in progress or just made
    kernelArgs,     \* the arguments arg_0 .. arg_{k-1} of the call
    kernelDims,     \* <<local_size, global_size>>
    kernelCalls,    \* the driver calls of the call, in order
    kernelExit,     \* how the call ended
    diagnostic,     \* the type name Arg<T>::Set printed before abort()
    \* ---- the Device's command queue and the contents of host and device memory
    hostData,       \* [Buffers -> the elements of the host sequence]
    devData,        \* [handle -> the elements held by the memory object]
    queue,          \* commands enqueued and not yet complete, oldest first
    issued,         \* commands enqueued so far; a command's id is its number
    completedCmds,  \* [id, call] of the completed commands, in completion order
    waitPc,         \* "finish" while Device::Wait is inside clFinish, else "none"
    waitCalls,      \* the driver calls of the last Device::Wait
    roundTrip,      \* progress of the write / zero / read-back sequence
    \* ---- platforms, and the Device objects with their driver resources
    vendors,        \* CL_PLATFORM_VENDOR of each platform, in enumeration order
    platform_use,   \* [Threads -> the local platform_use, NullHandle before it is set]
    platformCalls,  \* the driver calls of the last platform selection
    devObjects,     \* the Devices constructed: [platform, context, queue, alive]
    deviceReleases, \* the release calls Device destructors made, in order
    \* ---- Program and Kernel objects
    programs,       \* the Programs constructed: [source, build], build the
                    \* status clBuildProgram returned for program_
    kernels,        \* the Kernels constructed: [program, alive]
    programCalls,   \* the driver calls of the last Program / Kernel operation
    programOut,     \* what that operation wrote to std::cout
    \* ---- the event-tracking Device of the earlier version of the sources
    recent_events_, \* Device::recent_events_ : sequence of cl_event handles
    eventsMade,     \* events the driver handed out; the handles are 1 .. eventsMade
    eventsDone,     \* the events whose command is complete
    eventReleases,  \* [event -> number of clReleaseEvent calls on it]
    eventOp,        \* the last operation and recent_events_ as it found it
    eventCalls,     \* the driver calls of that operation, in order
    \* ---- Buffer<T>: the Device reference and the storage of the host sequence
    device_,        \* [Buffers -> Buffer::device_, NullHandle before construction]
    hostStorage,    \* [Buffers -> std::vector<T>::data(), the address of the storage]
    hostCapacity,   \* [Buffers -> std::vector<T>::capacity()]
    hostPtr,        \* [command id -> the host address a pending transfer was given]
    hostAccess,     \* the ids of the transfers that ran on storage already freed
    storeOp         \* the last operation on a Buffer's host side

devVars == <<units, freq, lock_, ids_, next_, pc, device_count, device_id_,
             constructions, selected, populatedFrom, completed, populations,
             emptyIndexed>>
bufVars == <<sizeofT, alive, hsize, device_buffer_, nextMem, memSize,
             memReleases, lastOp, calls>>
kernVars == <<kernelArgs, kernelDims, kernelCalls, kernelExit, diagnostic>>
queueVars == <<hostData, devData, queue, issued, completedCmds, waitPc,
               waitCalls, roundTrip>>
platVars == <<vendors, platform_use, platformCalls, devObjects, deviceReleases>>
progVars == <<programs, kernels, programCalls, programOut>>
eventVars == <<recent_events_, eventsMade, eventsDone, eventReleases,
               eventOp, eventCalls>>
storeVars == <<device_, hostStorage, hostCapacity, hostPtr, hostAccess, storeOp>>
extVars == <<platVars, progVars, eventVars, storeVars>>
vars == <<aborted, devVars, bufVars, kernVars, queueVars, extVars>>

(***************************************************************************)
(* Device selection: the pure parts of Device::Device.                     *)
(***************************************************************************)

\* GetMaxComputeUnits() and GetMaxFrequency() return cl_uint.
GetMaxComputeUnits(d) == units[d]
GetMaxFrequency(d) == freq[d]

\* cl_uint tmp = GetMaxComputeUnits()*GetMaxFrequency();
\* The product is a cl_uint (modulo 2^32); compute units times MHz of the
\* hardware values drawn here stay far below 2^32, so no wrap-around occurs.
Score(d) == GetMaxComputeUnits(d) * GetMaxFrequency(d)

\* clGetDeviceIDs fills device_list with the platform's first n GPU handles.
DeviceList(n) == [i \in 1 .. n |-> i]

\* The first loop: power = 0; for each device: if (tmp > power) power = tmp.
RECURSIVE MaxPowerFrom(_, _, _)
MaxPowerFrom(list, i, power) ==
    IF i > Len(list) THEN power
    ELSE MaxPowerFrom(list, i + 1,
                      IF Score(list[i]) > power THEN Score(list[i]) ELSE power)

MaxPower_FirstOnly(list) == IF Len(list) = 0 THEN 0 ELSE Score(list[1])
MaxPower(list) == MaxPowerFrom(list, 1, 0)

\* The second loop: push_back every device whose score equals power.
RECURSIVE TiedFrom(_, _, _, _)
TiedFrom(list, i, power, acc) ==
    IF i > Len(list) THEN acc
    ELSE TiedFrom(list, i + 1, power,
                  IF power # Score(list[i]) THEN acc ELSE Append(acc, list[i]))

TiedBest(list) == TiedFrom(list, 1, MaxPower(list), <<>>)

\* sel_.next_ = sel_.next_ >= sel_.ids_.size() ? 0 : sel_.next_;
ClampNext_OffByOne(next, size) == IF next + 1 >= size THEN 0 ELSE next
ClampNext(next, size) == IF next >= size THEN 0 ELSE next

\* if (!sel_.ids_.size())
NeedsPopulate_Always(ids) == TRUE
NeedsPopulate(ids) == Len(ids) = 0

\* boost::mutex::lock() returns only when no thread holds the mutex.
CanLock_NoMutex(holder) == TRUE
CanLock(holder) == holder = NoThread

\* An out-of-bounds read of an empty std::vector is undefined: the build may
\* crash or read any handle-sized value.
GarbageHandles == Devices \cup {NullHandle}

(***************************************************************************)
(* Device::Device, step by step.                                           *)
(***************************************************************************)

\* abort(): the process and all its threads end.
Abort ==
    /\ aborted' = TRUE
    /\ pc' = [u \in Threads |-> "aborted"]

\* A thread enters Device::Device (device_id_ = NULL) and makes the two
\* clGetDeviceIDs calls: the count (a zero count is logged, nothing more),
\* then the list.  Either call may return an error, which aborts.
EnumerateDevices(t) ==
    /\ ~aborted
    /\ pc[t] = "idle"
    /\ constructions < MaxConstructions
    /\ \E n \in 0 .. NumDevices, countOk \in BOOLEAN, listOk \in BOOLEAN :
         IF countOk /\ listOk
         THEN /\ device_count' = [device_count EXCEPT ![t] = n]
              /\ device_id_' = [device_id_ EXCEPT ![t] = NullHandle]
              /\ constructions' = constructions + 1
              /\ pc' = [pc EXCEPT ![t] = "lock"]
              /\ UNCHANGED aborted
         ELSE /\ Abort
              /\ UNCHANGED <<device_count, device_id_, constructions>>
    /\ UNCHANGED <<units, freq, lock_, ids_, next_, selected, populatedFrom,
                   completed, populations, emptyIndexed, bufVars, kernVars, queueVars>>

\* sel_.lock_.lock();
Lock(t) ==
    /\ ~aborted
    /\ pc[t] = "lock"
    /\ CanLock(lock_)
    /\ lock_' = t
    /\ pc' = [pc EXCEPT ![t] = "check"]
    /\ UNCHANGED <<aborted, units, freq, ids_, next_, device_count, device_id_,
                   constructions, selected, populatedFrom, completed,
                   populations, emptyIndexed, bufVars, kernVars, queueVars>>

\* if (!sel_.ids_.size()) { ... }
CheckEmpty(t) ==
    /\ ~aborted
    /\ pc[t] = "check"
    /\ pc' = [pc EXCEPT ![t] = IF NeedsPopulate(ids_) THEN "populate" ELSE "select"]
    /\ UNCHANGED <<aborted, units, freq, lock_, ids_, next_, device_count,
                   device_id_, constructions, selected, populatedFrom,
                   completed, populations, emptyIndexed, bufVars, kernVars, queueVars>>

\* The two loops over device_list; device_id_ is left at the last device visited.
PopulateIds(t) ==
    /\ ~aborted
    /\ pc[t] = "populate"
    /\ LET list == DeviceList(device_count[t]) IN
         /\ ids_' = ids_ \o TiedBest(list)
         /\ device_id_' = [device_id_ EXCEPT
                             ![t] = IF Len(list) = 0 THEN @ ELSE list[Len(list)]]
    /\ populations' = populations
                      + (IF Len(TiedBest(DeviceList(device_count[t]))) > 0 THEN 1 ELSE 0)
    /\ populatedFrom' = device_count[t]
    /\ pc' = [pc EXCEPT ![t] = "select"]
    /\ UNCHANGED <<aborted, units, freq, lock_, next_, device_count,
                   constructions, selected, completed, emptyIndexed, bufVars, kernVars, queueVars>>

\* sel_.next_ = ...; device_id_ = sel_.ids_[sel_.next_++]; sel_.lock_.unlock();
\* delete[] device_list;
SelectDevice(t) ==
    /\ ~aborted
    /\ pc[t] = "select"
    /\ LET n == ClampNext(next_, Len(ids_)) IN
         IF Len(ids_) = 0
         THEN \* ids_[0] of an empty vector: undefined behaviour
              /\ emptyIndexed' = TRUE
              /\ \/ /\ Abort
                    /\ UNCHANGED <<next_, device_id_, lock_, device_count>>
                 \/ /\ \E g \in GarbageHandles :
                         device_id_' = [device_id_ EXCEPT ![t] = g]
                    /\ next_' = n + 1
                    /\ pc' = [pc EXCEPT ![t] = "context"]
                    /\ lock_' = IF lock_ = t THEN NoThread ELSE lock_
                    /\ device_count' = device_count
                    /\ UNCHANGED aborted
              /\ UNCHANGED selected
         ELSE /\ device_id_' = [device_id_ EXCEPT ![t] = ids_[n + 1]]
              /\ selected' = Append(selected, ids_[n + 1])
              /\ next_' = n + 1
              /\ pc' = [pc EXCEPT ![t] = "context"]
              /\ lock_' = IF lock_ = t THEN NoThread ELSE lock_
              /\ UNCHANGED <<aborted, emptyIndexed, device_count>>
    /\ UNCHANGED <<units, freq, ids_, constructions, populatedFrom,
                   completed, populations, bufVars, kernVars, queueVars>>

\* context_ = clCreateContext(..., 1, &device_id_, ...); OclCheckError;
\* command_queue_ = clCreateCommandQueue(context_, device_id_, 0, ...);
\* OclCheckError.  The constructor returns.
CreateContextAndQueue(t) ==
    /\ ~aborted
    /\ pc[t] = "context"
    /\ \E contextOk \in BOOLEAN, queueOk \in BOOLEAN :
         IF contextOk /\ queueOk
         THEN /\ pc' = [pc EXCEPT ![t] = "idle"]
              /\ completed' = completed + 1
              /\ device_count' = [device_count EXCEPT ![t] = 0]
              /\ UNCHANGED aborted
         ELSE /\ Abort
              /\ UNCHANGED <<completed, device_count>>
    /\ UNCHANGED <<units, freq, lock_, ids_, next_, device_id_,
                   constructions, selected, populatedFrom, populations,
                   emptyIndexed, bufVars, kernVars, queueVars>>

(***************************************************************************)
(* Buffer<T>: the pure parts.                                              *)
(***************************************************************************)

\* size_t SizeBytes() { return std::vector<T>::size()*sizeof(T); }
SizeBytes(b) == hsize[b] * sizeofT

\* size_t DeviceBufferBytes(): 0 without a device buffer, else CL_MEM_SIZE.
DeviceBufferBytes(b) ==
    IF device_buffer_[b] = NullHandle THEN 0 ELSE memSize[device_buffer_[b]]

\* lastOp after an operation that makes no driver call.
HostOp == [op |-> "host", buf |-> 0]

\* One driver call as the driver sees it: the memory object, the byte count,
\* the blocking flag of an enqueue, and whether it returned CL_SUCCESS.
DriverCall(name, mem, bytes, blocking, ok) ==
    [call |-> name, mem |-> mem, bytes |-> bytes, blocking |-> blocking, ok |-> ok]

\* if (DeviceBufferBytes() < SizeBytes() || !device_buffer_)
NeedsRealloc_OnlyWhenNull(capacity, bytes, handle) == handle = NullHandle
NeedsRealloc_WhenDifferent(capacity, bytes, handle) ==
    capacity # bytes \/ handle = NullHandle
NeedsRealloc(capacity, bytes, handle) ==
    capacity < bytes \/ handle = NullHandle

\* The body of the if in SyncGPUBuffer: clReleaseMemObject on the old buffer,
\* if any, then clCreateBuffer of SizeBytes() bytes (new is the handle the
\* driver returns, NULL on failure).
SyncCalls_CreateFirst(old, new, bytes, ok) ==
    <<DriverCall("clCreateBuffer", new, bytes, FALSE, ok)>>
    \o (IF old # NullHandle
        THEN <<DriverCall("clReleaseMemObject", old, 0, FALSE, TRUE)>>
        ELSE <<>>)
SyncCalls(old, new, bytes, ok) ==
    (IF old # NullHandle
     THEN <<DriverCall("clReleaseMemObject", old, 0, FALSE, TRUE)>>
     ELSE <<>>)
    \o <<DriverCall("clCreateBuffer", new, bytes, FALSE, ok)>>

\* clEnqueueWriteBuffer(queue, device_buffer_, CL_FALSE, 0, SizeBytes(), data(), ...)
WriteCall(b, mem, ok) ==
    DriverCall("clEnqueueWriteBuffer", mem, SizeBytes(b), FALSE, ok)

\* clEnqueueReadBuffer(queue, device_buffer_, CL_FALSE, 0, SizeBytes(), data(), ...)
ReadCall_DeviceRange(b, ok) ==
    DriverCall("clEnqueueReadBuffer", device_buffer_[b], DeviceBufferBytes(b), FALSE, ok)
ReadCall(b, ok) ==
    DriverCall("clEnqueueReadBuffer", device_buffer_[b], SizeBytes(b), FALSE, ok)

\* ~Buffer(): if (device_buffer_) clReleaseMemObject(device_buffer_);
DestructorCalls_Leak(mem) == <<>>
DestructorCalls(mem) ==
    IF mem # NullHandle
    THEN <<DriverCall("clReleaseMemObject", mem, 0, FALSE, TRUE)>>
    ELSE <<>>

\* The releases a sequence of driver calls makes of memory object h.
RECURSIVE ReleasesOf(_, _)
ReleasesOf(cs, h) ==
    IF cs = <<>> THEN 0
    ELSE (IF Head(cs).call = "clReleaseMemObject" /\ Head(cs).mem = h THEN 1 ELSE 0)
         + ReleasesOf(Tail(cs), h)

\* The driver's release counts after the calls cs.
Released(cs) ==
    [h \in DOMAIN memReleases |-> memReleases[h] + ReleasesOf(cs, h)]

\* The driver's object sizes after the calls cs: a released object is gone.
Sizes(cs) ==
    [h \in DOMAIN memSize |-> IF ReleasesOf(cs, h) > 0 THEN 0 ELSE memSize[h]]

(***************************************************************************)
(* Buffer<T>: device-to-device copy and fill, the pure parts.              *)
(***************************************************************************)

\* size_t arithmetic is modulo 2^N (N = 64, or 32 on a 32-bit build).  The
\* model holds the size_t values near 0 and near 2^N: an integer n >= 0
\* stands for n, an integer n < 0 for 2^N + n, so SIZE_MAX is -1.  On these
\* representatives, sums and products of values whose result stays near 0 or
\* near 2^N are the integer sums and products, and the unsigned order puts
\* every n >= 0 below every n < 0.
SizeTMax == -1
SizeAdd(a, b) == a + b
SizeMul(a, b) == a * b
SizeLessEq(a, b) ==
    IF (a >= 0) = (b >= 0) THEN a <= b ELSE a >= 0

\* The element values of the host sequences and fill patterns.
Values == {0, 1}

\* The element offsets and counts the callers pass.
Offsets == {0, 1, SizeTMax}
Counts == {0, 1, 2}

\* DeviceBufferBytes()/sizeof(T): the device capacity in elements.
DeviceBufferElems(b) == DeviceBufferBytes(b) \div sizeofT

\* assert(pos + len <= DeviceBufferBytes()/sizeof(T)), in size_t arithmetic.
RangeAssert_Always(pos, len, elems) == TRUE
RangeAssert(pos, len, elems) == SizeLessEq(SizeAdd(pos, len), elems)

\* clGetMemObjectInfo(device_buffer_, CL_MEM_SIZE, ...) in DeviceBufferBytes().
MemSizeQuery(b, ok) ==
    DriverCall("clGetMemObjectInfo", device_buffer_[b], DeviceBufferBytes(b),
               FALSE, ok)

\* clEnqueueCopyBuffer(queue, device_buffer_, dst.device_buffer_,
\*                     src_pos, dst_pos, len*sizeof(T), 0, NULL, NULL)
\* The driver takes its fourth and fifth argument as src_offset and
\* dst_offset in bytes and its sixth as the size in bytes.
CopyCall(b, dst, dst_pos, src_pos, len, ok) ==
    [call |-> "clEnqueueCopyBuffer", mem |-> device_buffer_[b],
     dst |-> device_buffer_[dst], src_offset |-> src_pos,
     dst_offset |-> dst_pos, bytes |-> SizeMul(len, sizeofT),
     blocking |-> FALSE, ok |-> ok]

\* assert(device_buffer_) of FillDeviceBuffer.
FillAssert_Always(handle) == TRUE
FillAssert(handle) == handle # NullHandle

\* clEnqueueFillBuffer(queue, device_buffer_, &value, sizeof(T),
\*                     sizeof(T)*offset, sizeof(T)*count, 0, NULL, NULL)
FillCall(b, value, count, offset, ok) ==
    [call |-> "clEnqueueFillBuffer", mem |-> device_buffer_[b],
     pattern |-> value, pattern_size |-> sizeofT, offset |-> SizeMul(sizeofT, offset),
     bytes |-> SizeMul(sizeofT, count), blocking |-> FALSE, ok |-> ok]

(***************************************************************************)
(* Buffer<T>: the operations.                                              *)
(***************************************************************************)

\* Buffer(Device *device, size_t size = 0) and Buffer(Device *, const vector &)
Construct(b) ==
    /\ ~aborted
    /\ ~alive[b]
    /\ \E n \in 0 .. MaxSize : hsize' = [hsize EXCEPT ![b] = n]
    /\ alive' = [alive EXCEPT ![b] = TRUE]
    /\ device_buffer_' = [device_buffer_ EXCEPT ![b] = NullHandle]
    /\ lastOp' = HostOp
    /\ calls' = <<>>
    /\ UNCHANGED <<aborted, sizeofT, nextMem, memSize, memReleases, devVars, kernVars>>

\* Buffer(const Buffer &other)
CopyConstruct(b, other) ==
    /\ ~aborted
    /\ ~alive[b]
    /\ alive[other]
    /\ hsize' = [hsize EXCEPT ![b] = hsize[other]]
    /\ alive' = [alive EXCEPT ![b] = TRUE]
    /\ device_buffer_' = [device_buffer_ EXCEPT ![b] = NullHandle]
    /\ lastOp' = HostOp
    /\ calls' = <<>>
    /\ UNCHANGED <<aborted, sizeofT, nextMem, memSize, memReleases, devVars, kernVars>>

\* Buffer &operator=(const Buffer &other): the vector is assigned, nothing else.
Assign_WithHandle(b, other) ==
    /\ ~aborted
    /\ alive[b]
    /\ alive[other]
    /\ hsize' = [hsize EXCEPT ![b] = hsize[other]]
    /\ device_buffer_' = [device_buffer_ EXCEPT ![b] = device_buffer_[other]]
    /\ lastOp' = HostOp
    /\ calls' = <<>>
    /\ UNCHANGED <<aborted, sizeofT, alive, nextMem, memSize, memReleases,
                   devVars, kernVars>>
Assign(b, other) ==
    /\ ~aborted
    /\ alive[b]
    /\ alive[other]
    /\ hsize' = [hsize EXCEPT ![b] = hsize[other]]
    /\ lastOp' = HostOp
    /\ calls' = <<>>
    /\ UNCHANGED <<aborted, sizeofT, alive, device_buffer_, nextMem, memSize,
                   memReleases, devVars, kernVars>>

\* std::vector<T>::resize(n) (also clear(), pop_back(), assign(...))
Resize(b) ==
    /\ ~aborted
    /\ alive[b]
    /\ \E n \in 0 .. MaxSize : hsize' = [hsize EXCEPT ![b] = n]
    /\ lastOp' = HostOp
    /\ calls' = <<>>
    /\ UNCHANGED <<aborted, sizeofT, alive, device_buffer_, nextMem, memSize,
                   memReleases, devVars, kernVars>>

\* std::vector<T>::push_back(v)
PushBack(b) ==
    /\ ~aborted
    /\ alive[b]
    /\ hsize[b] < MaxSize
    /\ hsize' = [hsize EXCEPT ![b] = @ + 1]
    /\ lastOp' = HostOp
    /\ calls' = <<>>
    /\ UNCHANGED <<aborted, sizeofT, alive, device_buffer_, nextMem, memSize,
                   memReleases, devVars, kernVars>>

\* ~Buffer()
Destroy(b) ==
    /\ ~aborted
    /\ alive[b]
    /\ calls' = DestructorCalls(device_buffer_[b])
    /\ memReleases' = Released(calls')
    /\ device_buffer_' = [device_buffer_ EXCEPT ![b] = NullHandle]
    /\ alive' = [alive EXCEPT ![b] = FALSE]
    /\ hsize' = [hsize EXCEPT ![b] = 0]
    /\ memSize' = Sizes(calls')
    /\ lastOp' = [op |-> "~Buffer", buf |-> b]
    /\ UNCHANGED <<aborted, sizeofT, nextMem, devVars, kernVars>>

\* CopyToDevice(): SyncGPUBuffer(), then the non-blocking write.  Each driver
\* call that returns an error ends in abort(); the calls made so far stay in
\* the log.
CopyToDevice(b) ==
    /\ ~aborted
    /\ alive[b]
    /\ \E infoOk \in BOOLEAN, createOk \in BOOLEAN, writeOk \in BOOLEAN :
         LET old == device_buffer_[b]
             bytes == SizeBytes(b)
             info == IF old = NullHandle THEN <<>>
                     ELSE <<DriverCall("clGetMemObjectInfo", old, memSize[old],
                                       FALSE, infoOk)>>
             infoFailed == old # NullHandle /\ ~infoOk
             realloc == NeedsRealloc(DeviceBufferBytes(b), bytes, old)
             new == IF createOk THEN nextMem ELSE NullHandle
             sync == SyncCalls(old, new, bytes, createOk)
         IN  /\ (~infoFailed /\ realloc /\ createOk) => nextMem <= MaxAllocs
             /\ IF infoFailed
                THEN /\ calls' = info
                     /\ aborted' = TRUE
                     /\ UNCHANGED <<device_buffer_, nextMem, memSize, memReleases>>
                ELSE IF realloc
                THEN /\ device_buffer_' = [device_buffer_ EXCEPT ![b] = new]
                     /\ memReleases' = Released(sync)
                     /\ IF createOk
                        THEN /\ memSize' = [Sizes(sync) EXCEPT ![new] = bytes]
                             /\ nextMem' = nextMem + 1
                             /\ calls' = info \o sync \o <<WriteCall(b, new, writeOk)>>
                             /\ aborted' = ~writeOk
                        ELSE /\ calls' = info \o sync
                             /\ aborted' = TRUE
                             /\ memSize' = Sizes(sync)
                             /\ UNCHANGED nextMem
                ELSE /\ calls' = info \o <<WriteCall(b, old, writeOk)>>
                     /\ aborted' = ~writeOk
                     /\ UNCHANGED <<device_buffer_, nextMem, memSize, memReleases>>
    /\ lastOp' = [op |-> "CopyToDevice", buf |-> b]
    /\ UNCHANGED <<sizeofT, alive, hsize, devVars, kernVars>>

\* CopyToHost(): the non-blocking read; an error aborts.
CopyToHost(b) ==
    /\ ~aborted
    /\ alive[b]
    /\ \E readOk \in BOOLEAN :
         /\ calls' = <<ReadCall(b, readOk)>>
         /\ aborted' = ~readOk
    /\ lastOp' = [op |-> "CopyToHost", buf |-> b]
    /\ UNCHANGED <<sizeofT, alive, hsize, device_buffer_, nextMem, memSize,
                   memReleases, devVars, kernVars>>

(***************************************************************************)
(* Kernel: argument binding and launch.                                    *)
(***************************************************************************)

\* The argument types with a Kernel::Arg specialisation for scalars.
ScalarTypes == {"cl_int", "cl_uint", "cl_long", "cl_ulong", "cl_float", "cl_double"}

\* sizeof of a scalar argument type.
SizeofScalar(type) == IF type \in {"cl_int", "cl_uint", "cl_float"} THEN 4 ELSE 8

\* sizeof(cl_mem): a pointer.
SizeofClMem == 8

\* The arguments a caller may pass: a Buffer (val is its device_buffer_, a
\* handle or NULL), a LocalBuffer (val is its SizeBytes()), one of the six
\* scalars, or a value of any other type (a user-defined aggregate).
KernelArgs ==
    {[kind |-> "Buffer", val |-> m] : m \in {NullHandle, 1}}
    \cup {[kind |-> "LocalBuffer", val |-> 16]}
    \cup {[kind |-> type, val |-> 0] : type \in ScalarTypes}
    \cup {[kind |-> "Aggregate", val |-> 0]}

\* Dim(), Dim(X), Dim(X, Y), Dim(X, Y, Z): the missing extents default to 1,
\* all three to 0 in Dim().
DimDefault == <<0, 0, 0>>
Dim1(X) == <<X, 1, 1>>
Dim2(X, Y) == <<X, Y, 1>>
Dim3(X, Y, Z) == <<X, Y, Z>>

\* size_t GetDimensions() const: the number of extents greater than 1.
GetDimensions_NonZero(dim) ==
    (IF dim[1] > 0 THEN 1 ELSE 0) + (IF dim[2] > 0 THEN 1 ELSE 0)
    + (IF dim[3] > 0 THEN 1 ELSE 0)
GetDimensions(dim) ==
    (IF dim[1] > 1 THEN 1 ELSE 0) + (IF dim[2] > 1 THEN 1 ELSE 0)
    + (IF dim[3] > 1 THEN 1 ELSE 0)

\* The work sizes the callers pass.
LaunchDims == {DimDefault, Dim1(4), Dim2(4, 4), Dim3(4, 4, 4)}

\* Which Arg<T> the compiler picks: the specialisations for Buffer<T>,
\* LocalBuffer<T> and the six scalars, else the primary template.
HasSpecialisation_Any(arg) == TRUE
HasSpecialisation(arg) ==
    arg.kind \in {"Buffer", "LocalBuffer"} \cup ScalarTypes

\* The arg_size each specialisation hands to clSetKernelArg.
ArgSize(arg) ==
    IF arg.kind = "Buffer" THEN SizeofClMem
    ELSE IF arg.kind = "LocalBuffer" THEN arg.val
    ELSE IF arg.kind \in ScalarTypes THEN SizeofScalar(arg.kind)
    ELSE 0

\* The overload with n arguments binds arg_{n-1} at index n-1.
SlotOf_OneBased(n) == n
SlotOf(n) == n - 1

\* One driver call of a Kernel call.  For clSetKernelArg: the slot, the
\* arg_size and, for a Buffer, the cl_mem the arg_value points to; for
\* clEnqueueNDRangeKernel: work_dim = local_size.GetDimensions(), the arrays
\* global_size.array and local_size.array (x, y, z by the union), slot -1.
SetKernelArg(slot, arg, ok) ==
    [call |-> "clSetKernelArg", slot |-> slot, size |-> ArgSize(arg),
     mem |-> IF arg.kind = "Buffer" THEN arg.val ELSE NullHandle,
     work_dim |-> 0, global_work_size |-> <<>>, local_work_size |-> <<>>,
     ok |-> ok]
EnqueueNDRangeKernel(local_size, global_size, ok) ==
    [call |-> "clEnqueueNDRangeKernel", slot |-> -1, size |-> 0,
     mem |-> NullHandle, work_dim |-> GetDimensions(local_size),
     global_work_size |-> global_size, local_work_size |-> local_size,
     ok |-> ok]

\* assert(local_size.GetDimensions() == global_size.GetDimensions());
DimsMatch_Always(local_size, global_size) == TRUE
DimsMatch(local_size, global_size) ==
    GetDimensions(local_size) = GetDimensions(global_size)

\* operator() with n arguments.  For n > 1: Arg<T>::Set at index n-1,
\* OclCheckError, then the overload with n-1 arguments.  For n = 1:
\* Arg<A>::Set at index 0, whose status the launch status overwrites without
\* a check; the assert on the dimensions; clEnqueueNDRangeKernel;
\* OclCheckError.  The primary template of Arg prints the type and aborts.
\* The result is the driver calls made, the type printed, and how it ended.
RECURSIVE Invoke(_, _, _, _, _, _)
Invoke(n, args, oks, local_size, global_size, launchOk) ==
    LET arg == args[n]
        bind == SetKernelArg(SlotOf(n), arg, oks[n])
    IN  IF ~HasSpecialisation(arg)
        THEN [calls |-> <<>>, diag |-> arg.kind, exit |-> "abort"]
        ELSE IF n > 1
        THEN IF ~oks[n]
             THEN [calls |-> <<bind>>, diag |-> "", exit |-> "OclCheckError"]
             ELSE LET rest == Invoke(n - 1, args, oks, local_size, global_size,
                                     launchOk)
                  IN  [rest EXCEPT !.calls = <<bind>> \o @]
        ELSE IF ~DimsMatch(local_size, global_size)
        THEN [calls |-> <<bind>>, diag |-> "", exit |-> "assert"]
        ELSE [calls |-> <<bind, EnqueueNDRangeKernel(local_size, global_size,
                                                     launchOk)>>,
              diag |-> "",
              exit |-> IF launchOk THEN "returned" ELSE "OclCheckError"]

\* No Kernel call is in progress and none is on record.
KernelIdle ==
    /\ kernelArgs = <<>>
    /\ kernelDims = <<DimDefault, DimDefault>>
    /\ kernelCalls = <<>>
    /\ kernelExit = "idle"
    /\ diagnostic = ""

(***************************************************************************)
(* The command queue: the pure parts.                                      *)
(***************************************************************************)

\* An element whose value is not determined: device memory as clCreateBuffer
\* hands it out, or after a kernel of unknown code ran on it.
Unknown == -1

\* The contents of a fresh memory object of n elements.
Fresh(n) == [i \in 1 .. n |-> Unknown]

\* The driver calls that put a command on the command queue.
EnqueueCalls ==
    {"clEnqueueWriteBuffer", "clEnqueueReadBuffer", "clEnqueueCopyBuffer",
     "clEnqueueFillBuffer", "clEnqueueNDRangeKernel"}

\* The calls of cs that the driver accepted as commands.
Accepted(cs) == SelectSeq(cs, LAMBDA c : c.call \in EnqueueCalls /\ c.ok)

\* The queue after the operation op made the driver calls cs: every accepted
\* enqueue call appends one command, numbered in issue order.
Enqueue(cs, op) ==
    queue \o [i \in 1 .. Len(Accepted(cs)) |->
                 [id |-> issued + i, call |-> Accepted(cs)[i], op |-> op]]

\* clCreateCommandQueue(context_, device_id_, 0, ...): no out-of-order
\* property, so the driver runs the commands oldest first.
NextToRun_Newest(q) == Len(q)
NextToRun(q) == 1

\* clFinish returns CL_SUCCESS only when every command enqueued before the
\* call is complete.
FinishReturns_Immediately(q) == TRUE
FinishReturns(q) == q = <<>>

\* The memory objects as a write leaves them: the first bytes / sizeof(T)
\* elements come from the host sequence (read when the command runs).
DevAfterWrite(c, b) ==
    IF c.mem \notin DOMAIN devData THEN devData
    ELSE [devData EXCEPT ![c.mem] =
             [i \in 1 .. Len(@) |->
                 IF i <= c.bytes \div sizeofT /\ i <= Len(hostData[b])
                 THEN hostData[b][i] ELSE @[i]]]

\* The host sequences as a read leaves them: the first bytes / sizeof(T)
\* elements come from the memory object.
HostAfterRead(c, b) ==
    [hostData EXCEPT ![b] =
        [i \in 1 .. Len(@) |->
            IF i > c.bytes \div sizeofT THEN @[i]
            ELSE IF c.mem \in DOMAIN devData /\ i <= Len(devData[c.mem])
            THEN devData[c.mem][i] ELSE Unknown]]

\* The memory objects as a fill leaves them: the elements of the byte range
\* [offset, offset + bytes) hold the pattern.
DevAfterFill(c) ==
    IF c.mem \notin DOMAIN devData \/ c.offset < 0 \/ c.bytes < 0 THEN devData
    ELSE [devData EXCEPT ![c.mem] =
             [i \in 1 .. Len(@) |->
                 IF /\ (i - 1) * sizeofT >= c.offset
                    /\ i * sizeofT <= c.offset + c.bytes
                 THEN c.pattern ELSE @[i]]]

\* The memory objects as a copy leaves them: bytes [src_offset, src_offset +
\* bytes) of the source land at byte dst_offset of the destination.  Whole
\* elements move when both offsets are multiples of sizeof(T); otherwise the
\* destination elements touched hold pieces of two source elements.
DevAfterCopy(c) ==
    IF \/ c.mem \notin DOMAIN devData \/ c.dst \notin DOMAIN devData
       \/ c.src_offset < 0 \/ c.dst_offset < 0 \/ c.bytes < 0
    THEN devData
    ELSE [devData EXCEPT ![c.dst] =
             [i \in 1 .. Len(@) |->
                 IF \/ i * sizeofT <= c.dst_offset
                    \/ (i - 1) * sizeofT >= c.dst_offset + c.bytes
                 THEN @[i]
                 ELSE IF c.src_offset % sizeofT = 0 /\ c.dst_offset % sizeofT = 0
                 THEN LET j == i - (c.dst_offset \div sizeofT)
                                 + (c.src_offset \div sizeofT)
                      IN  IF j \in 1 .. Len(devData[c.mem])
                          THEN devData[c.mem][j] ELSE Unknown
                 ELSE Unknown]]

\* The memory objects as a kernel leaves them: what the kernel writes to the
\* Buffers bound as its arguments is not known.
DevAfterKernel(args) ==
    [h \in DOMAIN devData |->
        IF \E i \in 1 .. Len(args) : args[i].kind = "Buffer" /\ args[i].val = h
        THEN Fresh(Len(devData[h])) ELSE devData[h]]

\* Device and host memory after the command cmd ran.
DevAfter(cmd) ==
    IF cmd.call.call = "clEnqueueWriteBuffer" THEN DevAfterWrite(cmd.call, cmd.op.buf)
    ELSE IF cmd.call.call = "clEnqueueFillBuffer" THEN DevAfterFill(cmd.call)
    ELSE IF cmd.call.call = "clEnqueueCopyBuffer" THEN DevAfterCopy(cmd.call)
    ELSE IF cmd.call.call = "clEnqueueNDRangeKernel" THEN DevAfterKernel(cmd.op.args)
    ELSE devData
HostAfter(cmd) ==
    IF cmd.call.call = "clEnqueueReadBuffer" THEN HostAfterRead(cmd.call, cmd.op.buf)
    ELSE hostData

\* The memory objects after SyncGPUBuffer: a released object is gone, a
\* created one holds undetermined elements.
DevAfterSync ==
    [h \in DOMAIN devData |->
        IF memReleases'[h] > memReleases[h] THEN <<>>
        ELSE IF h = nextMem /\ nextMem' > nextMem
        THEN Fresh(memSize'[h] \div sizeofT)
        ELSE devData[h]]

\* The sequence: fill the host with v and CopyToDevice() (stage 1), Wait()
\* (2), overwrite the host with zeros (3), CopyToHost() (4), Wait() (5).
\* Any other operation in between ends the sequence; a CopyToDevice called
\* while no earlier command is pending on the queue starts it.
NoRoundTrip == [stage |-> 0, buf |-> 0, v |-> <<>>]
RoundTripAfter(event, b) ==
    IF aborted' THEN NoRoundTrip
    ELSE IF event = "CopyToDevice" /\ queue = <<>>
    THEN [stage |-> 1, buf |-> b, v |-> hostData[b]]
    ELSE IF event = "Wait" /\ roundTrip.stage \in {1, 4}
    THEN [roundTrip EXCEPT !.stage = @ + 1]
    ELSE IF event = "Zero" /\ roundTrip.stage = 2 /\ roundTrip.buf = b
    THEN [roundTrip EXCEPT !.stage = 3]
    ELSE IF event = "CopyToHost" /\ roundTrip.stage = 3 /\ roundTrip.buf = b
    THEN [roundTrip EXCEPT !.stage = 4]
    ELSE NoRoundTrip

\* Nothing was ever enqueued and no Buffer holds data.
QueueIdle ==
    /\ hostData = [b \in Buffers |-> <<>>]
    /\ devData = [h \in 1 .. MaxAllocs |-> <<>>]
    /\ queue = <<>>
    /\ issued = 0
    /\ completedCmds = <<>>
    /\ waitPc = "none"
    /\ waitCalls = <<>>
    /\ roundTrip = NoRoundTrip

\* One platform of an allow-listed vendor; no Device was ever constructed.
PlatformIdle ==
    /\ vendors = <<"NVIDIA Corporation">>
    /\ platform_use = [t \in Threads |-> NullHandle]
    /\ platformCalls = <<>>
    /\ devObjects = <<>>
    /\ deviceReleases = <<>>

\* No Program and no Kernel was ever constructed.
ProgramIdle ==
    /\ programs = <<>>
    /\ kernels = <<>>
    /\ programCalls = <<>>
    /\ programOut = <<>>

\* Nothing was enqueued and no event is tracked.
EventIdle ==
    /\ recent_events_ = <<>>
    /\ eventsMade = 0
    /\ eventsDone = {}
    /\ eventReleases = [e \in 1 .. MaxCommands |-> 0]
    /\ eventOp = [op |-> "none", tracked |-> <<>>]
    /\ eventCalls = <<>>

\* No Buffer has a Device or host storage, and no transfer captured an address.
StoreIdle ==
    /\ device_ = [b \in Buffers |-> NullHandle]
    /\ hostStorage = [b \in Buffers |-> NullHandle]
    /\ hostCapacity = [b \in Buffers |-> 0]
    /\ hostPtr = [c \in 1 .. MaxCommands |-> NullHandle]
    /\ hostAccess = {}
    /\ storeOp = [op |-> "none", buf |-> 0, other |-> 0]

ExtIdle ==
    /\ PlatformIdle
    /\ ProgramIdle
    /\ EventIdle
    /\ StoreIdle

BufferIdle ==
    /\ sizeofT = 4
    /\ alive = [b \in Buffers |-> FALSE]
    /\ hsize = [b \in Buffers |-> 0]
    /\ device_buffer_ = [b \in Buffers |-> NullHandle]
    /\ nextMem = 1
    /\ memSize = [h \in 1 .. MaxAllocs |-> 0]
    /\ memReleases = [h \in 1 .. MaxAllocs |-> 0]
    /\ lastOp = HostOp
    /\ calls = <<>>

Init ==
    /\ aborted = FALSE
    /\ \E hw \in [Devices -> GpuModels] :
         /\ units = [d \in Devices |-> hw[d][1]]
         /\ freq = [d \in Devices |-> hw[d][2]]
    /\ lock_ = NoThread
    /\ ids_ = <<>>
    /\ next_ = 0
    /\ pc = [t \in Threads |-> "idle"]
    /\ device_count = [t \in Threads |-> 0]
    /\ device_id_ = [t \in Threads |-> NullHandle]
    /\ constructions = 0
    /\ selected = <<>>
    /\ populatedFrom = 0
    /\ completed = 0
    /\ populations = 0
    /\ emptyIndexed = FALSE
    /\ BufferIdle
    /\ KernelIdle
    /\ QueueIdle
    /\ ExtIdle

Next ==
    \E t \in Threads :
        \/ EnumerateDevices(t) /\ UNCHANGED extVars
        \/ Lock(t) /\ UNCHANGED extVars
        \/ CheckEmpty(t) /\ UNCHANGED extVars
        \/ PopulateIds(t) /\ UNCHANGED extVars
        \/ SelectDevice(t) /\ UNCHANGED extVars
        \/ CreateContextAndQueue(t) /\ UNCHANGED extVars

Spec == Init /\ [][Next]_vars

\* No Device is under construction.
DeviceIdle ==
    /\ units = [d \in Devices |-> 2]
    /\ freq = [d \in Devices |-> 2]
    /\ lock_ = NoThread
    /\ ids_ = <<>>
    /\ next_ = 0
    /\ pc = [t \in Threads |-> "idle"]
    /\ device_count = [t \in Threads |-> 0]
    /\ device_id_ = [t \in Threads |-> NullHandle]
    /\ constructions = 0
    /\ selected = <<>>
    /\ populatedFrom = 0
    /\ completed = 0
    /\ populations = 0
    /\ emptyIndexed = FALSE

BufferInit ==
    /\ aborted = FALSE
    /\ DeviceIdle
    /\ sizeofT \in ElemSizes
    /\ alive = [b \in Buffers |-> FALSE]
    /\ hsize = [b \in Buffers |-> 0]
    /\ device_buffer_ = [b \in Buffers |-> NullHandle]
    /\ nextMem = 1
    /\ memSize = [h \in 1 .. MaxAllocs |-> 0]
    /\ memReleases = [h \in 1 .. MaxAllocs |-> 0]
    /\ lastOp = HostOp
    /\ calls = <<>>
    /\ KernelIdle
    /\ QueueIdle
    /\ ExtIdle

\* The Buffer operations with the command queue left out of account.
BufferNext ==
    \E b \in Buffers :
        \/ Construct(b) /\ UNCHANGED <<queueVars, extVars>>
        \/ \E other \in Buffers : CopyConstruct(b, other) /\ UNCHANGED <<queueVars, extVars>>
        \/ \E other \in Buffers : Assign(b, other) /\ UNCHANGED <<queueVars, extVars>>
        \/ Resize(b) /\ UNCHANGED <<queueVars, extVars>>
        \/ PushBack(b) /\ UNCHANGED <<queueVars, extVars>>
        \/ Destroy(b) /\ UNCHANGED <<queueVars, extVars>>
        \/ CopyToDevice(b) /\ UNCHANGED <<queueVars, extVars>>
        \/ CopyToHost(b) /\ UNCHANGED <<queueVars, extVars>>

BufferSpec == BufferInit /\ [][BufferNext]_vars

(***************************************************************************)
(* Buffer<T>: device-to-device copy and fill, the operations.              *)
(***************************************************************************)

\* CopyToDeviceBuffer(dst, dst_pos, src_pos, len) on Buffer b: the three
\* asserts (each capacity is a driver query that may abort), then the
\* non-blocking copy.  A failed assert aborts.
CopyToDeviceBufferWith(b, dst, dst_pos, src_pos, len) ==
    /\ ~aborted
    /\ alive[b]
    /\ alive[dst]
    /\ lastOp' = [op |-> "CopyToDeviceBuffer", buf |-> b, dst |-> dst,
                  dst_pos |-> dst_pos, src_pos |-> src_pos, len |-> len]
    /\ IF device_buffer_[b] = NullHandle \/ device_buffer_[dst] = NullHandle
       THEN /\ calls' = <<>>
            /\ aborted' = TRUE
       ELSE \/ /\ calls' = <<MemSizeQuery(dst, FALSE)>>
               /\ aborted' = TRUE
            \/ IF ~RangeAssert(dst_pos, len, DeviceBufferElems(dst))
               THEN /\ calls' = <<MemSizeQuery(dst, TRUE)>>
                    /\ aborted' = TRUE
               ELSE \/ /\ calls' = <<MemSizeQuery(dst, TRUE),
                                     MemSizeQuery(b, FALSE)>>
                       /\ aborted' = TRUE
                    \/ IF ~RangeAssert(src_pos, len, DeviceBufferElems(b))
                       THEN /\ calls' = <<MemSizeQuery(dst, TRUE),
                                          MemSizeQuery(b, TRUE)>>
                            /\ aborted' = TRUE
                       ELSE \E copyOk \in BOOLEAN :
                              /\ calls' = <<MemSizeQuery(dst, TRUE),
                                            MemSizeQuery(b, TRUE),
                                            CopyCall(b, dst, dst_pos, src_pos,
                                                     len, copyOk)>>
                              /\ aborted' = ~copyOk
    /\ UNCHANGED <<sizeofT, alive, hsize, device_buffer_, nextMem, memSize,
                   memReleases, devVars, kernVars>>

\* CopyToDeviceBuffer with any offsets and count.
CopyToDeviceBuffer(b, dst) ==
    /\ alive[b]
    /\ alive[dst]
    /\ \E dst_pos \in Offsets, src_pos \in Offsets, len \in Counts :
         CopyToDeviceBufferWith(b, dst, dst_pos, src_pos, len)

\* FillDeviceBuffer(value, count, offset) on Buffer b: assert(device_buffer_),
\* assert(count), then the non-blocking fill.
FillDeviceBufferWith(b, value, count, offset) ==
    /\ ~aborted
    /\ alive[b]
    /\ lastOp' = [op |-> "FillDeviceBuffer", buf |-> b, value |-> value,
                  count |-> count, offset |-> offset]
    /\ IF ~FillAssert(device_buffer_[b]) \/ count = 0
       THEN /\ calls' = <<>>
            /\ aborted' = TRUE
       ELSE \E fillOk \in BOOLEAN :
              /\ calls' = <<FillCall(b, value, count, offset, fillOk)>>
              /\ aborted' = ~fillOk
    /\ UNCHANGED <<sizeofT, alive, hsize, device_buffer_, nextMem, memSize,
                   memReleases, devVars, kernVars>>

\* FillDeviceBuffer with any value, count and offset.
FillDeviceBuffer(b) ==
    /\ alive[b]
    /\ \E value \in Values, count \in Counts, offset \in Offsets :
         FillDeviceBufferWith(b, value, count, offset)

TransferNext ==
    \E b \in Buffers :
        \/ Construct(b) /\ UNCHANGED <<queueVars, extVars>>
        \/ CopyToDevice(b) /\ UNCHANGED <<queueVars, extVars>>
        \/ \E dst \in Buffers : CopyToDeviceBuffer(b, dst) /\ UNCHANGED <<queueVars, extVars>>
        \/ FillDeviceBuffer(b) /\ UNCHANGED <<queueVars, extVars>>

TransferSpec == BufferInit /\ [][TransferNext]_vars

(***************************************************************************)
(* Kernel: the operations.                                                 *)
(***************************************************************************)

\* kernel(local_size, global_size, arg_0, ..., arg_{k-1}): the overload with
\* k arguments; each driver call returns CL_SUCCESS or an error.
KernelCallWith(k, args, local_size, global_size) ==
    /\ ~aborted
    /\ kernelExit = "idle"
    /\ \E oks \in [1 .. k -> BOOLEAN], launchOk \in BOOLEAN :
         LET r == Invoke(k, args, oks, local_size, global_size, launchOk)
         IN  /\ kernelArgs' = args
             /\ kernelDims' = <<local_size, global_size>>
             /\ kernelCalls' = r.calls
             /\ diagnostic' = r.diag
             /\ kernelExit' = r.exit
             /\ aborted' = (r.exit # "returned")
    /\ UNCHANGED <<devVars, bufVars>>

\* A Kernel call with any of the overloads up to MaxArity arguments, any
\* arguments and any work sizes.
KernelCall ==
    /\ kernelExit = "idle"
    /\ \E k \in 1 .. MaxArity, local_size \in LaunchDims,
          global_size \in LaunchDims :
         \E args \in [1 .. k -> KernelArgs] :
            KernelCallWith(k, args, local_size, global_size)

\* operator() has returned to its caller: the arguments leave scope.
KernelReturn ==
    /\ ~aborted
    /\ kernelExit = "returned"
    /\ kernelArgs' = <<>>
    /\ kernelDims' = <<DimDefault, DimDefault>>
    /\ kernelCalls' = <<>>
    /\ kernelExit' = "idle"
    /\ diagnostic' = ""
    /\ UNCHANGED <<aborted, devVars, bufVars>>

KernelInit ==
    /\ aborted = FALSE
    /\ DeviceIdle
    /\ BufferIdle
    /\ KernelIdle
    /\ QueueIdle
    /\ ExtIdle

KernelNext ==
    \/ KernelCall /\ UNCHANGED <<queueVars, extVars>>
    \/ KernelReturn /\ UNCHANGED <<queueVars, extVars>>

KernelSpec == KernelInit /\ [][KernelNext]_vars

\* Every Dim: the extents are size_t members the constructors Dim(),
\* Dim(X), Dim(X, Y), Dim(X, Y, Z) set and any caller may assign.
MaxExtent == 4           \* largest extent of a work size on one axis
Extents == 0 .. MaxExtent
Dims == {Dim3(X, Y, Z) : X \in Extents, Y \in Extents, Z \in Extents}

\* kernel(local_size, global_size, arg_0) with a cl_int argument and work
\* sizes of every kind.
LaunchCall ==
    /\ kernelExit = "idle"
    /\ \E local_size \in Dims, global_size \in Dims :
         KernelCallWith(1, <<[kind |-> "cl_int", val |-> 0]>>,
                        local_size, global_size)

LaunchNext ==
    \/ LaunchCall /\ UNCHANGED <<queueVars, extVars>>
    \/ KernelReturn /\ UNCHANGED <<queueVars, extVars>>

LaunchSpec == KernelInit /\ [][LaunchNext]_vars

(***************************************************************************)
(* The command queue: Buffer and Kernel operations that enqueue, the       *)
(* driver running the commands, and Device::Wait.                          *)
(***************************************************************************)

\* The client thread is not inside Device::Wait.
ClientFree == ~aborted /\ waitPc = "none"

\* Buffer(Device *device, const std::vector< T > &other): the host sequence
\* starts as a copy of other.
ConstructFrom(b) ==
    /\ ClientFree
    /\ Construct(b)
    /\ \E v \in [1 .. hsize'[b] -> Values] :
         hostData' = [hostData EXCEPT ![b] = v]
    /\ roundTrip' = RoundTripAfter("Construct", b)
    /\ waitCalls' = <<>>
    /\ UNCHANGED <<devData, queue, issued, completedCmds, waitPc>>

\* Buffer(Device *device, size_t size): resize(size) value-initialises the
\* elements.
ConstructZeroed(b) ==
    /\ ClientFree
    /\ Construct(b)
    /\ hostData' = [hostData EXCEPT ![b] = [i \in 1 .. hsize'[b] |-> 0]]
    /\ roundTrip' = RoundTripAfter("Construct", b)
    /\ waitCalls' = <<>>
    /\ UNCHANGED <<devData, queue, issued, completedCmds, waitPc>>

\* The caller assigns the elements of the host sequence; its size stays.
HostStore(b) ==
    /\ ClientFree
    /\ alive[b]
    /\ UNCHANGED <<aborted, devVars, bufVars, kernVars, devData, queue, issued,
                   completedCmds, waitPc>>
    /\ \E v \in [1 .. hsize[b] -> Values] :
         /\ hostData' = [hostData EXCEPT ![b] = v]
         /\ roundTrip' =
               RoundTripAfter(IF \A i \in 1 .. hsize[b] : v[i] = 0
                              THEN "Zero" ELSE "Store", b)
    /\ waitCalls' = <<>>

\* CopyToDevice() with its write on the command queue.
CopyToDeviceOnQueue(b) ==
    /\ ClientFree
    /\ issued < MaxCommands
    /\ CopyToDevice(b)
    /\ queue' = Enqueue(calls', lastOp')
    /\ issued' = issued + Len(Accepted(calls'))
    /\ devData' = DevAfterSync
    /\ roundTrip' = RoundTripAfter("CopyToDevice", b)
    /\ waitCalls' = <<>>
    /\ UNCHANGED <<hostData, completedCmds, waitPc>>

\* CopyToHost() with its read on the command queue.
CopyToHostOnQueue(b) ==
    /\ ClientFree
    /\ issued < MaxCommands
    /\ CopyToHost(b)
    /\ queue' = Enqueue(calls', lastOp')
    /\ issued' = issued + Len(Accepted(calls'))
    /\ roundTrip' = RoundTripAfter("CopyToHost", b)
    /\ waitCalls' = <<>>
    /\ UNCHANGED <<hostData, devData, completedCmds, waitPc>>

\* FillDeviceBuffer(value, 1) with its fill on the command queue.
FillDeviceBufferOnQueue(b) ==
    /\ ClientFree
    /\ issued < MaxCommands
    /\ \E value \in Values : FillDeviceBufferWith(b, value, 1, 0)
    /\ queue' = Enqueue(calls', lastOp')
    /\ issued' = issued + Len(Accepted(calls'))
    /\ roundTrip' = RoundTripAfter("FillDeviceBuffer", b)
    /\ waitCalls' = <<>>
    /\ UNCHANGED <<hostData, devData, completedCmds, waitPc>>

\* CopyToDeviceBuffer(dst, 0, 0, 1) with its copy on the command queue.
CopyToDeviceBufferOnQueue(b, dst) ==
    /\ ClientFree
    /\ issued < MaxCommands
    /\ CopyToDeviceBufferWith(b, dst, 0, 0, 1)
    /\ queue' = Enqueue(calls', lastOp')
    /\ issued' = issued + Len(Accepted(calls'))
    /\ roundTrip' = RoundTripAfter("CopyToDeviceBuffer", b)
    /\ waitCalls' = <<>>
    /\ UNCHANGED <<hostData, devData, completedCmds, waitPc>>

\* kernel(Dim(4), Dim(4), buffer) with its launch on the command queue of
\* program_->get_device().
KernelCallOnQueue(b) ==
    /\ ClientFree
    /\ issued < MaxCommands
    /\ alive[b]
    /\ KernelCallWith(1, <<[kind |-> "Buffer", val |-> device_buffer_[b]]>>,
                      Dim1(4), Dim1(4))
    /\ queue' = Enqueue(kernelCalls', [op |-> "Kernel", args |-> kernelArgs'])
    /\ issued' = issued + Len(Accepted(kernelCalls'))
    /\ roundTrip' = RoundTripAfter("Kernel", b)
    /\ waitCalls' = <<>>
    /\ UNCHANGED <<hostData, devData, completedCmds, waitPc>>

\* operator() returns.
KernelReturnOnQueue ==
    /\ ClientFree
    /\ KernelReturn
    /\ UNCHANGED <<queueVars, extVars>>

\* The driver completes the command whose turn it is.
Execute ==
    /\ ~aborted
    /\ queue # <<>>
    /\ LET n == NextToRun(queue)
           cmd == queue[n]
       IN  /\ devData' = DevAfter(cmd)
           /\ hostData' = HostAfter(cmd)
           /\ completedCmds' = Append(completedCmds,
                                     [id |-> cmd.id, call |-> cmd.call.call])
           /\ queue' = SubSeq(queue, 1, n - 1) \o SubSeq(queue, n + 1, Len(queue))
    /\ UNCHANGED <<aborted, devVars, bufVars, kernVars, issued, waitPc, waitCalls,
                   roundTrip>>

\* One driver call of Device::Wait.
WaitCall(name, ok) == [call |-> name, ok |-> ok]

\* Device::Wait(), first half: clFlush(command_queue_); OclCheckError; the
\* thread then enters clFinish.
WaitFlush ==
    /\ ClientFree
    /\ \E flushOk \in BOOLEAN :
         /\ waitCalls' = <<WaitCall("clFlush", flushOk)>>
         /\ aborted' = ~flushOk
         /\ waitPc' = IF flushOk THEN "finish" ELSE "none"
         /\ roundTrip' = IF flushOk THEN roundTrip ELSE NoRoundTrip
    /\ UNCHANGED <<devVars, bufVars, kernVars, hostData, devData, queue, issued,
                   completedCmds>>

\* Device::Wait(), second half: clFinish(command_queue_) returns, with
\* CL_SUCCESS or with an error; OclCheckError; Wait returns.
WaitFinish ==
    /\ ~aborted
    /\ waitPc = "finish"
    /\ \/ /\ FinishReturns(queue)
          /\ waitCalls' = Append(waitCalls, WaitCall("clFinish", TRUE))
          /\ aborted' = FALSE
       \/ /\ waitCalls' = Append(waitCalls, WaitCall("clFinish", FALSE))
          /\ aborted' = TRUE
    /\ waitPc' = "none"
    /\ roundTrip' = RoundTripAfter("Wait", 0)
    /\ UNCHANGED <<devVars, bufVars, kernVars, hostData, devData, queue, issued,
                   completedCmds>>

QueueInit ==
    /\ aborted = FALSE
    /\ DeviceIdle
    /\ BufferIdle
    /\ KernelIdle
    /\ QueueIdle
    /\ ExtIdle

\* Every kind of command, from two Buffers and a Kernel of the Device.
QueueNext ==
    \/ \E b \in Buffers :
          \/ ConstructZeroed(b) /\ UNCHANGED extVars
          \/ CopyToDeviceOnQueue(b) /\ UNCHANGED extVars
          \/ CopyToHostOnQueue(b) /\ UNCHANGED extVars
          \/ FillDeviceBufferOnQueue(b) /\ UNCHANGED extVars
          \/ \E dst \in Buffers :
                CopyToDeviceBufferOnQueue(b, dst) /\ UNCHANGED extVars
          \/ KernelCallOnQueue(b) /\ UNCHANGED extVars
    \/ KernelReturnOnQueue /\ UNCHANGED extVars
    \/ Execute /\ UNCHANGED extVars
    \/ WaitFlush /\ UNCHANGED extVars
    \/ WaitFinish /\ UNCHANGED extVars

QueueSpec == QueueInit /\ [][QueueNext]_vars

\* One Buffer with host contents of every kind, written and read back.
RoundTripBuffers == {1}

RoundTripNext ==
    \/ \E b \in RoundTripBuffers :
          \/ ConstructFrom(b) /\ UNCHANGED extVars
          \/ HostStore(b) /\ UNCHANGED extVars
          \/ CopyToDeviceOnQueue(b) /\ UNCHANGED extVars
          \/ CopyToHostOnQueue(b) /\ UNCHANGED extVars
    \/ Execute /\ UNCHANGED extVars
    \/ WaitFlush /\ UNCHANGED extVars
    \/ WaitFinish /\ UNCHANGED extVars

RoundTripSpec == QueueInit /\ [][RoundTripNext]_vars

(***************************************************************************)
(* Device: platform selection, construction and destruction.               *)
(***************************************************************************)

MaxPlatforms == 2        \* platforms clGetPlatformIDs can enumerate

\* The vendor names Device::Device compares with, and one it does not know.
AllowList == {"Advanced Micro Devices, Inc.", "NVIDIA Corporation"}
Vendors == AllowList \cup {"Intel(R) Corporation"}

\* !strcmp("Advanced Micro Devices, Inc.", str) || !strcmp("NVIDIA Corporation", str)
AllowListed(str) == str \in AllowList

\* cl_platform_id platform_use = NULL;
\* for (i = 0; i < platform_count; i++)
\*     if (the vendor of platform_list[i] is allow-listed) platform_use = platform_list[i];
\* The handle of the i-th platform enumerated is i.
RECURSIVE PlatformUseFrom(_, _, _)
PlatformUseFrom(strs, i, use) ==
    IF i > Len(strs) THEN use
    ELSE PlatformUseFrom(strs, i + 1, IF AllowListed(strs[i]) THEN i ELSE use)

PlatformUse(strs) == PlatformUseFrom(strs, 1, NullHandle)

\* assert(platform_use);
PlatformAssert_Always(use) == TRUE
PlatformAssert(use) == use # NullHandle

\* The driver calls of a platform selection that run to their end:
\* clGetPlatformIDs for the count; with a count above zero, clGetPlatformIDs
\* for the list and one clGetPlatformInfo(CL_PLATFORM_VENDOR) per platform.
PlatformCall(name, platform) == [call |-> name, platform |-> platform, ok |-> TRUE]
AllPlatformCalls(n) ==
    <<PlatformCall("clGetPlatformIDs", NullHandle)>>
    \o (IF n = 0 THEN <<>>
        ELSE <<PlatformCall("clGetPlatformIDs", NullHandle)>>
             \o [i \in 1 .. n |-> PlatformCall("clGetPlatformInfo", i)])

\* The calls made when call number failAt returns an error (0: none does):
\* OclCheckError aborts after the failed call.
PlatformCallsMade(n, failAt) ==
    IF failAt = 0 THEN AllPlatformCalls(n)
    ELSE [i \in 1 .. failAt |->
             [AllPlatformCalls(n)[i] EXCEPT !.ok = (i # failAt)]]

\* Device::Device up to assert(platform_use): device_id_ = NULL, the platform
\* count (zero platforms abort), the platform list, the vendor loop, the
\* assertion.  A vendor string the driver returns fits the 128-byte buffer
\* (a longer one makes clGetPlatformInfo fail), so assert(128 >= ret_size)
\* holds whenever it is reached.
SelectPlatform(t) ==
    /\ ~aborted
    /\ pc[t] = "idle"
    /\ platform_use[t] = NullHandle
    /\ constructions < MaxConstructions
    /\ \E failAt \in 0 .. Len(AllPlatformCalls(Len(vendors))) :
         /\ platformCalls' = PlatformCallsMade(Len(vendors), failAt)
         /\ IF \/ failAt # 0
               \/ Len(vendors) = 0
               \/ ~PlatformAssert(PlatformUse(vendors))
            THEN /\ Abort
                 /\ UNCHANGED <<platform_use, device_id_>>
            ELSE /\ platform_use' = [platform_use EXCEPT ![t] = PlatformUse(vendors)]
                 /\ device_id_' = [device_id_ EXCEPT ![t] = NullHandle]
                 /\ UNCHANGED <<aborted, pc>>
    /\ UNCHANGED <<units, freq, lock_, ids_, next_, device_count,
                   constructions, selected, populatedFrom, completed,
                   populations, emptyIndexed, vendors, devObjects,
                   deviceReleases, progVars, eventVars, storeVars, bufVars, kernVars,
                   queueVars>>

\* The rest of Device::Device runs on the platform chosen.
EnumerateDevicesOn(t) ==
    /\ platform_use[t] # NullHandle
    /\ EnumerateDevices(t)
    /\ UNCHANGED extVars

\* The constructor returns: the Device holds a new context and a new queue.
CreateContextAndQueueOn(t) ==
    /\ CreateContextAndQueue(t)
    /\ IF aborted'
       THEN UNCHANGED <<platform_use, devObjects>>
       ELSE /\ devObjects' = Append(devObjects,
                                    [platform |-> platform_use[t],
                                     context |-> Len(devObjects) + 1,
                                     queue |-> Len(devObjects) + 1,
                                     alive |-> TRUE])
            /\ platform_use' = [platform_use EXCEPT ![t] = NullHandle]
    /\ UNCHANGED <<vendors, platformCalls, deviceReleases, progVars,
                   eventVars, storeVars>>

\* class Device declares no destructor: the implicit one destroys the three
\* handle members, which are plain pointers, and makes no driver call.
ReleaseCall(name, handle) == [call |-> name, handle |-> handle]
DeviceDestructorCalls(obj) == <<>>

\* ~Device() on the i-th Device constructed.
DestroyDevice(i) ==
    /\ ~aborted
    /\ i \in DOMAIN devObjects
    /\ devObjects[i].alive
    /\ devObjects' = [devObjects EXCEPT ![i].alive = FALSE]
    /\ deviceReleases' = deviceReleases \o DeviceDestructorCalls(devObjects[i])
    /\ UNCHANGED <<aborted, devVars, bufVars, kernVars, queueVars, vendors,
                   platform_use, platformCalls, progVars, eventVars, storeVars>>

\* The platforms of the run: up to MaxPlatforms, of any vendors.
LifeInit ==
    /\ aborted = FALSE
    /\ DeviceIdle
    /\ BufferIdle
    /\ KernelIdle
    /\ QueueIdle
    /\ vendors \in UNION {[1 .. n -> Vendors] : n \in 0 .. MaxPlatforms}
    /\ platform_use = [t \in Threads |-> NullHandle]
    /\ platformCalls = <<>>
    /\ devObjects = <<>>
    /\ deviceReleases = <<>>
    /\ ProgramIdle
    /\ EventIdle
    /\ StoreIdle

\* One thread constructs and destroys the Devices, one after the other.
LifeThreads == {1}

LifeNext ==
    \/ \E t \in LifeThreads :
          \/ SelectPlatform(t)
          \/ EnumerateDevicesOn(t)
          \/ Lock(t) /\ UNCHANGED extVars
          \/ CheckEmpty(t) /\ UNCHANGED extVars
          \/ PopulateIds(t) /\ UNCHANGED extVars
          \/ SelectDevice(t) /\ UNCHANGED extVars
          \/ CreateContextAndQueueOn(t)
    \/ \E i \in 1 .. MaxConstructions : DestroyDevice(i)

LifeSpec == LifeInit /\ [][LifeNext]_vars

(***************************************************************************)
(* Program and Kernel: construction.                                       *)
(***************************************************************************)

MaxPrograms == 3         \* Program objects constructed in one run
MaxKernels == 2          \* Kernel objects constructed in one run

\* The status codes a driver call returns: CL_SUCCESS, the one error code
\* Program::Program compares with, and any other error.
Statuses == {"CL_SUCCESS", "CL_BUILD_PROGRAM_FAILURE", "CL_OUT_OF_RESOURCES"}

\* The program sources handed to the constructor, and the build log texts
\* the driver may hold for a program.
Sources == {"__kernel void f() {}", "__kernel void f( {"}
BuildLogs == {"", "1:18: error: expected ')'"}

\* OclCheckError(status, ...): any status but CL_SUCCESS aborts.
IsError(status) == status # "CL_SUCCESS"

\* if (cl_status == CL_BUILD_PROGRAM_FAILURE)
IsBuildFailure_Never(status) == FALSE
IsBuildFailure(status) == status = "CL_BUILD_PROGRAM_FAILURE"

\* One driver call of a Program or Kernel operation and the status it
\* returned; text is the build log the second clGetProgramBuildInfo copies out.
ProgramCall(name, status) == [call |-> name, status |-> status, text |-> ""]
BuildLogCall(status, text) ==
    [call |-> "clGetProgramBuildInfo", status |-> status, text |-> text]

\* std::cout << "****" << "BUILD LOG:" << build_log << "****"
BuildLogPrinted(text) == <<"BUILD LOG:", text>>

\* Program::Program(device, source): clCreateProgramWithSource and
\* OclCheckError; clBuildProgram; on CL_BUILD_PROGRAM_FAILURE the size of the
\* build log and OclCheckError, the build log and OclCheckError, the log
\* printed, abort(); on any other status OclCheckError.  The result is the
\* driver calls made, what was printed, and how the constructor ended.
ProgramConstruct(create, build, size, log, text) ==
    LET c1 == ProgramCall("clCreateProgramWithSource", create)
        c2 == ProgramCall("clBuildProgram", build)
        c3 == ProgramCall("clGetProgramBuildInfo", size)
        c4 == BuildLogCall(log, text)
    IN  IF IsError(create)
        THEN [calls |-> <<c1>>, out |-> <<>>, exit |-> "OclCheckError"]
        ELSE IF IsBuildFailure(build)
        THEN IF IsError(size)
             THEN [calls |-> <<c1, c2, c3>>, out |-> <<>>,
                   exit |-> "OclCheckError"]
             ELSE IF IsError(log)
             THEN [calls |-> <<c1, c2, c3, [c4 EXCEPT !.text = ""]>>,
                   out |-> <<>>, exit |-> "OclCheckError"]
             ELSE [calls |-> <<c1, c2, c3, c4>>,
                   out |-> BuildLogPrinted(text), exit |-> "abort"]
        ELSE IF IsError(build)
        THEN [calls |-> <<c1, c2>>, out |-> <<>>, exit |-> "OclCheckError"]
        ELSE [calls |-> <<c1, c2>>, out |-> <<>>, exit |-> "returned"]

\* new Program(device, source): the object exists when the constructor
\* returns.
ConstructProgram ==
    /\ ~aborted
    /\ Len(programs) < MaxPrograms
    /\ \E source \in Sources, create \in Statuses, build \in Statuses,
          size \in Statuses, log \in Statuses, text \in BuildLogs :
         LET r == ProgramConstruct(create, build, size, log, text)
         IN  /\ programCalls' = r.calls
             /\ programOut' = r.out
             /\ aborted' = (r.exit # "returned")
             /\ programs' = IF r.exit = "returned"
                            THEN Append(programs,
                                        [source |-> source, build |-> build])
                            ELSE programs
    /\ UNCHANGED <<kernels, devVars, bufVars, kernVars, queueVars, platVars,
                   eventVars, storeVars>>

\* Kernel::Kernel(program, kernel_name): clCreateKernel; OclCheckError.
ConstructKernel(p) ==
    /\ ~aborted
    /\ p \in DOMAIN programs
    /\ Len(kernels) < MaxKernels
    /\ \E status \in Statuses :
         /\ programCalls' = <<ProgramCall("clCreateKernel", status)>>
         /\ aborted' = IsError(status)
         /\ kernels' = IF IsError(status) THEN kernels
                       ELSE Append(kernels, [program |-> p, alive |-> TRUE])
    /\ programOut' = <<>>
    /\ UNCHANGED <<programs, devVars, bufVars, kernVars, queueVars, platVars,
                   eventVars, storeVars>>

\* Kernel::~Kernel(): clReleaseKernel(kernel_).
DestroyKernel(k) ==
    /\ ~aborted
    /\ k \in DOMAIN kernels
    /\ kernels[k].alive
    /\ kernels' = [kernels EXCEPT ![k].alive = FALSE]
    /\ programCalls' = <<ProgramCall("clReleaseKernel", "CL_SUCCESS")>>
    /\ programOut' = <<>>
    /\ UNCHANGED <<aborted, programs, devVars, bufVars, kernVars, queueVars,
                   platVars, eventVars, storeVars>>

ProgramNext ==
    \/ ConstructProgram
    \/ \E p \in 1 .. MaxPrograms : ConstructKernel(p)
    \/ \E k \in 1 .. MaxKernels : DestroyKernel(k)

ProgramSpec == KernelInit /\ [][ProgramNext]_vars

(***************************************************************************)
(* The event-tracking Device: the earlier version of the sources           *)
(* (compute.hpp lines 1-351, unnamed/part_000 lines 1-230), in which every *)
(* enqueue hands out a cl_event that Device::Wait waits for and releases.  *)
(***************************************************************************)

\* One driver call of that version: the events it hands out through &event
\* (an enqueue), waits for (clWaitForEvents) or releases (clReleaseEvent).
EventCall(name, events, ok) == [call |-> name, events |-> events, ok |-> ok]

\* void Device::AddEvent(cl_event event) { recent_events_.push_back(event); }
AddEvent(events, event) == Append(events, event)

\* Buffer::CopyToHost / Buffer::CopyToDevice: the non-blocking enqueue with
\* &event; OclCheckError; device_->AddEvent(event).
TrackedTransfer(op, name) ==
    /\ ~aborted
    /\ eventsMade < MaxCommands
    /\ eventOp' = [op |-> op, tracked |-> recent_events_]
    /\ \/ /\ eventCalls' = <<EventCall(name, <<eventsMade + 1>>, TRUE)>>
          /\ eventsMade' = eventsMade + 1
          /\ recent_events_' = AddEvent(recent_events_, eventsMade + 1)
          /\ UNCHANGED aborted
       \/ /\ eventCalls' = <<EventCall(name, <<>>, FALSE)>>
          /\ aborted' = TRUE
          /\ UNCHANGED <<eventsMade, recent_events_>>
    /\ UNCHANGED <<eventsDone, eventReleases, devVars, bufVars, kernVars,
                   queueVars, platVars, progVars, storeVars>>

EventCopyToHost == TrackedTransfer("CopyToHost", "clEnqueueReadBuffer")
EventCopyToDevice == TrackedTransfer("CopyToDevice", "clEnqueueWriteBuffer")

\* operator() with n arguments of bindable types.  For n > 1: Arg<T>::Set at
\* index n-1, OclCheckError, the overload with n-1 arguments.  For n = 1:
\* Arg<A>::Set at index 0 (its status is overwritten unchecked), the launch
\* with &event, OclCheckError, AddEvent(event).  The result is the driver
\* calls made and how the call ended.
RECURSIVE TrackedInvoke(_, _, _, _)
TrackedInvoke(n, oks, launchOk, event) ==
    IF n > 1
    THEN IF ~oks[n]
         THEN [calls |-> <<EventCall("clSetKernelArg", <<>>, FALSE)>>,
               exit |-> "OclCheckError"]
         ELSE [TrackedInvoke(n - 1, oks, launchOk, event) EXCEPT
                  !.calls = <<EventCall("clSetKernelArg", <<>>, TRUE)>> \o @]
    ELSE [calls |-> <<EventCall("clSetKernelArg", <<>>, oks[1]),
                      EventCall("clEnqueueNDRangeKernel",
                                IF launchOk THEN <<event>> ELSE <<>>, launchOk)>>,
          exit |-> IF launchOk THEN "returned" ELSE "OclCheckError"]

\* kernel(local_size, global_size, arg_0, ..., arg_{k-1})
EventKernelCall ==
    /\ ~aborted
    /\ eventsMade < MaxCommands
    /\ eventOp' = [op |-> "Kernel", tracked |-> recent_events_]
    /\ \E k \in 1 .. MaxArity :
         \E oks \in [1 .. k -> BOOLEAN], launchOk \in BOOLEAN :
            LET r == TrackedInvoke(k, oks, launchOk, eventsMade + 1)
            IN  /\ eventCalls' = r.calls
                /\ aborted' = (r.exit # "returned")
                /\ IF r.exit = "returned"
                   THEN /\ eventsMade' = eventsMade + 1
                        /\ recent_events_' = AddEvent(recent_events_,
                                                      eventsMade + 1)
                   ELSE UNCHANGED <<eventsMade, recent_events_>>
    /\ UNCHANGED <<eventsDone, eventReleases, devVars, bufVars, kernVars,
                   queueVars, platVars, progVars, storeVars>>

\* The driver completes the oldest command that is not complete (the queue
\* is in-order): its event becomes complete.
EventComplete ==
    /\ ~aborted
    /\ \E e \in 1 .. eventsMade :
         /\ e \notin eventsDone
         /\ \A f \in 1 .. (e - 1) : f \in eventsDone
         /\ eventsDone' = eventsDone \cup {e}
    /\ UNCHANGED <<aborted, recent_events_, eventsMade, eventReleases,
                   eventOp, eventCalls, devVars, bufVars, kernVars,
                   queueVars, platVars, progVars, storeVars>>

\* clWaitForEvents(recent_events_.size(), &recent_events_.front())
WaitList_FirstOnly(events) == SubSeq(events, 1, 1)
WaitList(events) == events

\* clWaitForEvents returns CL_SUCCESS only when every event of the list is
\* complete.
WaitForEventsReturns(list) == \A i \in DOMAIN list : list[i] \in eventsDone

\* The driver calls of Wait() on a non-empty recent_events_ when call number
\* failAt returns an error (0: none does): clWaitForEvents, then one
\* clReleaseEvent per tracked event, each followed by OclCheckError.
EventWaitCalls(events, failAt) ==
    LET all == <<EventCall("clWaitForEvents", WaitList(events), TRUE)>>
               \o [i \in 1 .. Len(events) |->
                      EventCall("clReleaseEvent", <<events[i]>>, TRUE)]
    IN  IF failAt = 0 THEN all
        ELSE [i \in 1 .. failAt |-> [all[i] EXCEPT !.ok = (i # failAt)]]

\* How often the calls cs released event e.
EventReleasesIn(cs, e) ==
    Cardinality({i \in DOMAIN cs : cs[i] = EventCall("clReleaseEvent", <<e>>, TRUE)})

\* Device::Wait(): return at once when recent_events_ is empty; else
\* clWaitForEvents (blocking), OclCheckError, the release loop,
\* recent_events_.clear().
EventWait ==
    /\ ~aborted
    /\ eventOp' = [op |-> "Wait", tracked |-> recent_events_]
    /\ IF recent_events_ = <<>>
       THEN /\ eventCalls' = <<>>
            /\ UNCHANGED <<aborted, recent_events_, eventReleases>>
       ELSE \E failAt \in 0 .. (Len(recent_events_) + 1) :
               /\ failAt # 1 => WaitForEventsReturns(WaitList(recent_events_))
               /\ eventCalls' = EventWaitCalls(recent_events_, failAt)
               /\ eventReleases' =
                     [e \in DOMAIN eventReleases |->
                         eventReleases[e] + EventReleasesIn(eventCalls', e)]
               /\ aborted' = (failAt # 0)
               /\ recent_events_' = IF failAt = 0 THEN <<>> ELSE recent_events_
    /\ UNCHANGED <<eventsMade, eventsDone, devVars, bufVars, kernVars,
                   queueVars, platVars, progVars, storeVars>>

EventNext ==
    \/ EventCopyToHost
    \/ EventCopyToDevice
    \/ EventKernelCall
    \/ EventComplete
    \/ EventWait

EventSpec == KernelInit /\ [][EventNext]_vars

(***************************************************************************)
(* Buffer<T>: the storage of the host sequence (Buffer derives from        *)
(* std::vector<T>), the Device reference, and the transfers pending on     *)
(* the storage.                                                            *)
(***************************************************************************)

\* The Device objects a client passes to the Buffer constructors.
DeviceObjects == {1, 2}

\* std::vector<T> moves to new storage, and frees the old one, exactly when
\* the new size exceeds capacity().
Reallocates(n, cap) == n > cap

\* The capacities the vector may have after it allocated for n elements: at
\* least n, the growth policy is the library's.
NewCapacities(n) == n .. MaxSize

\* The addresses of storage blocks: there are enough for every Buffer and
\* every pending transfer to hold a different one.
Storages == 1 .. (Cardinality(Buffers) + MaxCommands)

\* The block the allocator hands out: one that is not the storage of a
\* Buffer (and, so that a stale address stays recognisable, not an address a
\* pending transfer holds).
FreshStorage ==
    CHOOSE a \in Storages :
        /\ \A b \in Buffers : hostStorage[b] # a
        /\ \A c \in 1 .. MaxCommands : hostPtr[c] # a

\* The storage of Buffer b after its vector was given n elements.
StorageAfter(b, n) ==
    IF Reallocates(n, hostCapacity[b])
    THEN /\ hostStorage' = [hostStorage EXCEPT ![b] = FreshStorage]
         /\ \E c \in NewCapacities(n) :
              hostCapacity' = [hostCapacity EXCEPT ![b] = c]
    ELSE UNCHANGED <<hostStorage, hostCapacity>>

\* The queue, the contents and Device::Wait stay as they are.
QueueFrame ==
    UNCHANGED <<hostData, devData, queue, issued, completedCmds, waitPc,
                waitCalls, roundTrip>>

\* The Device, the storage and the pending addresses stay as they are.
StoreFrame == UNCHANGED <<device_, hostStorage, hostCapacity, hostPtr, hostAccess>>

\* The record of a host-side operation op on Buffer b.
StoreOp(op, b, other) == [op |-> op, buf |-> b, other |-> other]

\* Buffer(Device *device, size_t size) on the Device object d.
ConstructOn(b, d) ==
    /\ ClientFree
    /\ Construct(b)
    /\ device_' = [device_ EXCEPT ![b] = d]
    /\ StorageAfter(b, hsize'[b])
    /\ UNCHANGED <<hostPtr, hostAccess>>

\* operator=(const Buffer &other): std::vector<T>::operator =(other); return *this.
AssignStorage(b, other) ==
    /\ ClientFree
    /\ Assign(b, other)
    /\ StorageAfter(b, hsize'[b])
    /\ UNCHANGED <<device_, hostPtr, hostAccess>>

\* std::vector<T>::resize(n)
ResizeStorage(b) ==
    /\ ClientFree
    /\ Resize(b)
    /\ StorageAfter(b, hsize'[b])
    /\ UNCHANGED <<device_, hostPtr, hostAccess>>

\* std::vector<T>::push_back(v)
PushBackStorage(b) ==
    /\ ClientFree
    /\ PushBack(b)
    /\ StorageAfter(b, hsize'[b])
    /\ UNCHANGED <<device_, hostPtr, hostAccess>>

\* ~Buffer(): the memory object is released, then ~vector() frees the storage.
DestroyStorage(b) ==
    /\ ClientFree
    /\ Destroy(b)
    /\ device_' = [device_ EXCEPT ![b] = NullHandle]
    /\ hostStorage' = [hostStorage EXCEPT ![b] = NullHandle]
    /\ hostCapacity' = [hostCapacity EXCEPT ![b] = 0]
    /\ UNCHANGED <<hostPtr, hostAccess>>

\* The host address an accepted transfer was given: std::vector<T>::data()
\* at the time of the call.
Captured(b) ==
    IF Len(Accepted(calls')) = 1
    THEN [hostPtr EXCEPT ![issued + 1] = hostStorage[b]]
    ELSE hostPtr

\* An operation of Buffer b that enqueues a transfer: the command goes on
\* the queue and holds data().
PendingOn(b) ==
    /\ queue' = Enqueue(calls', lastOp')
    /\ issued' = issued + Len(Accepted(calls'))
    /\ hostPtr' = Captured(b)
    /\ UNCHANGED <<hostData, devData, completedCmds, waitPc, waitCalls, roundTrip>>
    /\ UNCHANGED <<device_, hostStorage, hostCapacity, hostAccess>>

\* CopyToDevice() / CopyToHost() as the first command the queue is given,
\* with the transfer pending.
CopyToDeviceStorage(b) ==
    /\ ClientFree
    /\ issued = 0
    /\ CopyToDevice(b)
    /\ PendingOn(b)
CopyToHostStorage(b) ==
    /\ ClientFree
    /\ issued = 0
    /\ CopyToHost(b)
    /\ PendingOn(b)

\* The transfers: the commands that read or write host memory.
Transfers == {"clEnqueueWriteBuffer", "clEnqueueReadBuffer"}

\* The address ptr is the storage Buffer b's vector holds now.
LiveStorage(b, ptr) == alive[b] /\ hostStorage[b] = ptr

\* The command is a transfer of at least one byte whose host address is no
\* longer the storage of its Buffer.
StaleAccess(cmd) ==
    /\ cmd.call.call \in Transfers
    /\ cmd.call.bytes > 0
    /\ ~LiveStorage(cmd.op.buf, hostPtr[cmd.id])

\* The driver completes the transfer whose turn it is, reading or writing
\* the host memory at the address the command holds (the contents are not
\* followed here).  On storage that was freed that is undefined behaviour:
\* the process crashes, or the command completes.
CompleteTransfer ==
    /\ ~aborted
    /\ queue # <<>>
    /\ LET n == NextToRun(queue)
           cmd == queue[n]
           done == /\ completedCmds' =
                        Append(completedCmds,
                               [id |-> cmd.id, call |-> cmd.call.call])
                   /\ queue' = SubSeq(queue, 1, n - 1)
                                  \o SubSeq(queue, n + 1, Len(queue))
                   /\ hostPtr' = [hostPtr EXCEPT ![cmd.id] = NullHandle]
                   /\ UNCHANGED aborted
       IN  IF ~StaleAccess(cmd)
           THEN /\ done
                /\ UNCHANGED hostAccess
           ELSE /\ hostAccess' = hostAccess \cup {cmd.id}
                /\ \/ done
                   \/ /\ aborted' = TRUE
                      /\ UNCHANGED <<queue, completedCmds, hostPtr>>
    /\ UNCHANGED <<devVars, bufVars, kernVars, hostData, devData, issued,
                   waitPc, waitCalls, roundTrip>>
    /\ UNCHANGED <<device_, hostStorage, hostCapacity>>

\* What StorageSpec leaves out of account.
StorageRest == UNCHANGED <<platVars, progVars, eventVars, storeOp>>

\* Host-side changes of two Buffers of one Device interleaved with a
\* transfer and with Device::Wait().
StorageNext ==
    \/ \E b \in Buffers :
          \/ ConstructOn(b, 1) /\ QueueFrame /\ StorageRest
          \/ ResizeStorage(b) /\ QueueFrame /\ StorageRest
          \/ PushBackStorage(b) /\ QueueFrame /\ StorageRest
          \/ \E other \in Buffers :
                AssignStorage(b, other) /\ QueueFrame /\ StorageRest
          \/ DestroyStorage(b) /\ QueueFrame /\ StorageRest
          \/ CopyToDeviceStorage(b) /\ StorageRest
          \/ CopyToHostStorage(b) /\ StorageRest
    \/ CompleteTransfer /\ StorageRest
    \/ WaitFlush /\ StoreFrame /\ StorageRest
    \/ WaitFinish /\ StoreFrame /\ StorageRest

StorageSpec == QueueInit /\ [][StorageNext]_vars

\* The host sequences change as given; the queue and Device::Wait stay as
\* they are, and the storage addresses are not followed.
ContentsFrame ==
    UNCHANGED <<devData, queue, issued, completedCmds, waitPc, waitCalls,
                roundTrip, hostStorage, hostCapacity, hostPtr, hostAccess>>

\* The vectors the Buffers are constructed from: n equal elements.
Uniform(v) == \A i \in DOMAIN v : v[i] = v[1]

\* Buffer(Device *device, const std::vector< T > &other) on the Device
\* object d, with the elements of other.
ConstructFromOn(b, d) ==
    /\ ConstructFrom(b)
    /\ Uniform(hostData'[b])
    /\ device_' = [device_ EXCEPT ![b] = d]
    /\ storeOp' = StoreOp("Buffer", b, 0)
    /\ UNCHANGED <<hostStorage, hostCapacity, hostPtr, hostAccess>>

\* Buffer(const Buffer &other): std::vector<T>(other), device_(other.device_),
\* device_buffer_(NULL).
CopyConstructFrom(b, other) ==
    /\ ClientFree
    /\ CopyConstruct(b, other)
    /\ hostData' = [hostData EXCEPT ![b] = hostData[other]]
    /\ device_' = [device_ EXCEPT ![b] = device_[other]]
    /\ storeOp' = StoreOp("Buffer(const Buffer &)", b, other)
    /\ ContentsFrame

\* operator=(const Buffer &other): std::vector<T>::operator =(other);
\* return *this.
AssignFrom(b, other) ==
    /\ ClientFree
    /\ Assign(b, other)
    /\ hostData' = [hostData EXCEPT ![b] = hostData[other]]
    /\ storeOp' = StoreOp("operator=", b, other)
    /\ UNCHANGED device_
    /\ ContentsFrame

\* ~Buffer()
DestroyWithContents(b) ==
    /\ ClientFree
    /\ Destroy(b)
    /\ hostData' = [hostData EXCEPT ![b] = <<>>]
    /\ device_' = [device_ EXCEPT ![b] = NullHandle]
    /\ storeOp' = StoreOp("~Buffer", b, 0)
    /\ ContentsFrame

\* CopyToDevice(), for the device allocation it leaves the Buffer with (the
\* command is not followed).
CopyToDeviceAllocating(b) ==
    /\ ClientFree
    /\ CopyToDevice(b)
    /\ storeOp' = StoreOp("CopyToDevice", b, 0)
    /\ StoreFrame
    /\ UNCHANGED queueVars

\* What AssignSpec leaves out of account.
AssignRest == UNCHANGED <<platVars, progVars, eventVars>>

\* Two Buffers on two Devices: construction, copy construction, assignment,
\* CopyToDevice and destruction.
AssignNext ==
    \E b \in Buffers :
        \/ \E d \in DeviceObjects : ConstructFromOn(b, d) /\ AssignRest
        \/ \E other \in Buffers : CopyConstructFrom(b, other) /\ AssignRest
        \/ \E other \in Buffers : AssignFrom(b, other) /\ AssignRest
        \/ CopyToDeviceAllocating(b) /\ AssignRest
        \/ DestroyWithContents(b) /\ AssignRest

AssignSpec == QueueInit /\ [][AssignNext]_vars

(***************************************************************************)
(* Device selection: the properties.                                       *)
(***************************************************************************)

\* How often handle d was selected.
TimesSelected(d) == Cardinality({k \in 1 .. Len(selected) : selected[k] = d})

\* The devices of an n-device enumeration whose score no other device exceeds.
BestSet(n) == {d \in 1 .. n : \A e \in 1 .. n : Score(e) <= Score(d)}

\* seq lists exactly the devices of S, in enumeration order, each once.
ListsInOrder(seq, S) ==
    /\ {seq[k] : k \in 1 .. Len(seq)} = S
    /\ \A j, k \in 1 .. Len(seq) : j < k => seq[j] < seq[k]

\* The position of handle d in ids_ (0 when absent).
PositionIn(ids, d) ==
    IF \E k \in 1 .. Len(ids) : ids[k] = d
    THEN CHOOSE k \in 1 .. Len(ids) : ids[k] = d
    ELSE 0

\* C1: with M > 1 devices tied at the maximum score, the k-th construction
\* (k = 0, 1, 2, ...) selects tied-best device number k mod M in enumeration
\* order, and after any number N of selections divisible by M every tied
\* device has been selected exactly N / M times.
C1_RoundRobin ==
    (~emptyIndexed /\ Len(ids_) > 1) =>
        /\ ListsInOrder(ids_, BestSet(populatedFrom))
        /\ \A k \in 1 .. Len(selected) :
               selected[k] = ids_[((k - 1) % Len(ids_)) + 1]
        /\ (Len(selected) % Len(ids_) = 0 =>
               \A k \in 1 .. Len(ids_) :
                   TimesSelected(ids_[k]) * Len(ids_) = Len(selected))

\* C1 witness: three tied devices, and a fourth construction has wrapped around.
C1_Witness ==
    /\ ~emptyIndexed
    /\ ~aborted
    /\ Len(ids_) = 3
    /\ Len(selected) = 4
    /\ selected[4] = ids_[1]

\* C2: when exactly one enumerated device has the maximum score, every
\* construction selects that device, whatever its position in the enumeration.
C2_UniqueMaximum ==
    (Len(ids_) > 0 /\ Cardinality(BestSet(populatedFrom)) = 1) =>
        \A k \in 1 .. Len(selected) : selected[k] \in BestSet(populatedFrom)

\* C2 witness: three devices, the last one alone has the maximum, and three
\* constructions have selected.
C2_Witness ==
    /\ ~aborted
    /\ populatedFrom = 3
    /\ BestSet(3) = {3}
    /\ Len(selected) >= 3
    /\ \A k \in 1 .. Len(selected) : selected[k] = 3

\* C3: under every interleaving of concurrent constructors, ids_ is filled by
\* exactly one constructor, no two constructors read the same cursor value
\* (each selection is the cyclic successor of the one before), and the
\* per-device selection counts differ by at most one.
C3_MutualExclusion ==
    /\ populations <= 1
    /\ Len(ids_) > 0 => ListsInOrder(ids_, BestSet(populatedFrom))
    /\ \A k \in 1 .. Len(selected) - 1 :
           PositionIn(ids_, selected[k + 1])
               = (PositionIn(ids_, selected[k]) % Len(ids_)) + 1
    /\ \A j, k \in 1 .. Len(ids_) :
           TimesSelected(ids_[j]) - TimesSelected(ids_[k]) <= 1

\* C3 witness: one thread is inside the critical section while the other
\* waits for the lock, after an earlier construction filled ids_.
C3_Witness ==
    /\ ~aborted
    /\ \E t, u \in Threads :
         /\ lock_ = t
         /\ pc[t] = "select"
         /\ pc[u] = "lock"
    /\ Len(ids_) > 1
    /\ Len(selected) >= 2

\* C4 (the part that fails): ids_ is non-empty in every state reached after a
\* Device construction has completed.
C4_NonEmptyAfterConstruction ==
    completed > 0 => Len(ids_) > 0

\* C4 (the parts that hold): a non-empty ids_ never changes and is never cleared.
C4_NeverChanges ==
    [][Len(ids_) > 0 => ids_' = ids_]_vars

\* C5: when the platform enumerates zero GPU devices the constructor aborts:
\* no constructor that enumerated zero devices gets past the selection to
\* create a context, and ids_ is never indexed while empty.
C5_ZeroDevicesAbort ==
    /\ \A t \in Threads : pc[t] = "context" => device_count[t] > 0
    /\ ~emptyIndexed

\* C26 as stated: with a non-empty ids_ the stored next_ is an index of
\* ids_, 0 <= next_ < ids_.size().
C26_CursorBelowLength ==
    Len(ids_) > 0 => (0 <= next_ /\ next_ < Len(ids_))

\* A constructor of thread t reads ids_[...] and stores next_ in this step,
\* with ids_ non-empty.
Selects(t) ==
    /\ pc[t] = "select"
    /\ pc'[t] = "context"
    /\ Len(ids_) > 0

\* C26 as the code has it: the index read is the stored next_ reduced modulo
\* ids_.size(), which is in bounds, and the next_ stored afterwards is that
\* index plus one; so with a non-empty ids_ the stored next_ is in
\* 0 .. ids_.size(), the upper end included.
C26_CursorWithinLength ==
    /\ [](Len(ids_) > 0 => next_ \in 0 .. Len(ids_))
    /\ [][\A t \in Threads :
             Selects(t) =>
                 /\ next_ % Len(ids_) \in 0 .. Len(ids_) - 1
                 /\ device_id_'[t] = ids_[(next_ % Len(ids_)) + 1]
                 /\ next_' = (next_ % Len(ids_)) + 1]_vars

\* C26 witness: two tied devices, four selections made, and the stored
\* next_ equals ids_.size().
C26_Witness ==
    /\ ~emptyIndexed
    /\ ~aborted
    /\ Len(ids_) = 2
    /\ Len(selected) = 4
    /\ next_ = Len(ids_)


(***************************************************************************)
(* Buffer<T>: the properties.                                              *)
(***************************************************************************)

\* The positions of the calls named name in the log of the last operation.
CallsNamed(name) == {i \in 1 .. Len(calls) : calls[i].call = name}

\* The last operation was CopyToDevice on b / CopyToHost on b.
DidCopyToDevice(b) == lastOp = [op |-> "CopyToDevice", buf |-> b]
DidCopyToHost(b) == lastOp = [op |-> "CopyToHost", buf |-> b]

\* C6: whenever CopyToDevice issues its write, the Buffer has a live device
\* allocation whose capacity is at least the host byte size, the write goes
\* to that allocation and covers exactly the host byte size.
C6_WriteFitsAllocation ==
    \A b \in Buffers : DidCopyToDevice(b) =>
        \A i \in CallsNamed("clEnqueueWriteBuffer") :
            /\ i = Len(calls)
            /\ calls[i].mem # NullHandle
            /\ calls[i].mem = device_buffer_[b]
            /\ memReleases[calls[i].mem] = 0
            /\ memSize[calls[i].mem] >= hsize[b] * sizeofT
            /\ calls[i].bytes = hsize[b] * sizeofT

\* C6 witness: a write was enqueued after the host sequence outgrew the old
\* allocation, which this CopyToDevice replaced.
C6_Witness ==
    /\ ~aborted
    /\ \E b \in Buffers :
         /\ DidCopyToDevice(b)
         /\ CallsNamed("clReleaseMemObject") # {}
         /\ CallsNamed("clEnqueueWriteBuffer") # {}
         /\ hsize[b] = MaxSize

\* C7: CopyToDevice on a Buffer whose allocation already holds the host byte
\* size releases nothing and creates nothing: handle and capacity stay as
\* they were; and the device capacity of a Buffer never decreases while the
\* Buffer lives.
C7_NoShrink ==
    [][\A b \in Buffers :
        /\ ( /\ DidCopyToDevice(b)'
             /\ device_buffer_[b] # NullHandle
             /\ DeviceBufferBytes(b) >= SizeBytes(b) )
           => /\ device_buffer_' = device_buffer_
              /\ memSize' = memSize
              /\ memReleases' = memReleases
              /\ nextMem' = nextMem
              /\ \A i \in 1 .. Len(calls') :
                     calls'[i].call \notin {"clReleaseMemObject", "clCreateBuffer"}
        /\ (alive[b] /\ alive'[b] /\ ~aborted')
           => DeviceBufferBytes(b)' >= DeviceBufferBytes(b)
      ]_vars

\* C7 witness: CopyToDevice after the host sequence shrank below the capacity
\* enqueued its write on the allocation it found.
C7_Witness ==
    /\ ~aborted
    /\ \E b \in Buffers :
         /\ DidCopyToDevice(b)
         /\ CallsNamed("clCreateBuffer") = {}
         /\ CallsNamed("clEnqueueWriteBuffer") # {}
         /\ hsize[b] > 0
         /\ DeviceBufferBytes(b) > SizeBytes(b)

\* The allocations of the Buffer that are live after the first i calls of
\* the log: the one it came with (CopyToDevice queries it first), less the
\* releases, plus the successful creates.
LiveAfter(i) ==
    (IF Len(calls) > 0 /\ calls[1].call = "clGetMemObjectInfo" THEN 1 ELSE 0)
    - Cardinality({j \in CallsNamed("clReleaseMemObject") : j <= i})
    + Cardinality({j \in CallsNamed("clCreateBuffer") : j <= i /\ calls[j].ok})

\* C8: when the host byte size exceeds the device capacity, CopyToDevice
\* first releases the old allocation, then creates one of exactly the host
\* byte size, and only then enqueues the write; at no point does the Buffer
\* have two live allocations.
C8_ReleaseCreateWrite ==
    \A b \in Buffers : DidCopyToDevice(b) =>
        /\ ( /\ Len(calls) > 0
             /\ calls[1].call = "clGetMemObjectInfo"
             /\ calls[1].ok
             /\ calls[1].bytes < hsize[b] * sizeofT )
           => /\ Len(calls) >= 3
              /\ calls[2].call = "clReleaseMemObject"
              /\ calls[2].mem = calls[1].mem
              /\ calls[3].call = "clCreateBuffer"
              /\ calls[3].bytes = hsize[b] * sizeofT
              /\ calls[3].ok =>
                    /\ Len(calls) = 4
                    /\ calls[4].call = "clEnqueueWriteBuffer"
                    /\ calls[4].mem = calls[3].mem
                    /\ calls[4].mem # calls[1].mem
        /\ \A i \in 1 .. Len(calls) : LiveAfter(i) <= 1

\* C8 witness: a reallocation that went through to the write.
C8_Witness ==
    /\ ~aborted
    /\ \E b \in Buffers :
         /\ DidCopyToDevice(b)
         /\ Len(calls) = 4
         /\ calls[1].bytes < hsize[b] * sizeofT
         /\ calls[1].bytes > 0

\* The Buffers that hold handle h.
Holders(h) == {b \in Buffers : alive[b] /\ device_buffer_[b] = h}

\* C9: every device allocation created is released exactly once: no handle
\* is released twice, an allocation not yet released is held by exactly one
\* living Buffer (whose destructor releases it), and no Buffer holds a
\* released handle.
C9_AllocationsBalanced ==
    /\ \A h \in 1 .. MaxAllocs : memReleases[h] <= 1
    /\ ~aborted =>
          \A h \in 1 .. nextMem - 1 :
              memReleases[h] = 0 => Cardinality(Holders(h)) = 1
    /\ \A b \in Buffers :
          (alive[b] /\ device_buffer_[b] # NullHandle)
              => /\ device_buffer_[b] < nextMem
                 /\ memReleases[device_buffer_[b]] = 0

\* C9 witness: a destructor released the allocation of a Buffer while the
\* other Buffer still holds its own, after an earlier reallocation.
C9_Witness ==
    /\ ~aborted
    /\ lastOp.op = "~Buffer"
    /\ Len(calls) = 1
    /\ nextMem = MaxAllocs + 1
    /\ \E h \in 1 .. MaxAllocs : memReleases[h] = 0 /\ Holders(h) # {}
    /\ Cardinality({h \in 1 .. MaxAllocs : memReleases[h] = 1}) = 2

\* C10 as claimed: a read that CopyToHost enqueues on the Buffer's device
\* allocation has the byte length of that allocation (its device capacity).
C10_ReadsDeviceCapacity ==
    \A b \in Buffers :
        (DidCopyToHost(b) /\ ~aborted /\ device_buffer_[b] # NullHandle) =>
            /\ Len(calls) = 1
            /\ calls[1].call = "clEnqueueReadBuffer"
            /\ ~calls[1].blocking
            /\ calls[1].bytes = DeviceBufferBytes(b)

\* C10 amended: the read CopyToHost enqueues is non-blocking, on the Buffer's
\* device_buffer_, and its byte length is the host sequence's byte size,
\* size() * sizeof(T), whatever the capacity of the device allocation.
C10_ReadsHostSize ==
    \A b \in Buffers : DidCopyToHost(b) =>
        /\ Len(calls) = 1
        /\ calls[1].call = "clEnqueueReadBuffer"
        /\ ~calls[1].blocking
        /\ calls[1].mem = device_buffer_[b]
        /\ calls[1].bytes = hsize[b] * sizeofT
        /\ calls[1].ok = ~aborted

\* C10 witness: a read was enqueued on a Buffer whose host sequence is
\* shorter than its device allocation.
C10_Witness ==
    /\ ~aborted
    /\ \E b \in Buffers :
         /\ DidCopyToHost(b)
         /\ device_buffer_[b] # NullHandle
         /\ hsize[b] > 0
         /\ hsize[b] * sizeofT < DeviceBufferBytes(b)

\* The reads the driver accepted in the last operation, a CopyToHost.
ReadsEnqueued ==
    {i \in CallsNamed("clEnqueueReadBuffer") :
        calls[i].ok /\ \E b \in Buffers : DidCopyToHost(b)}

\* C30, first part: CopyToHost enqueues no read on a Buffer without a
\* device allocation.
C30_ReadsAnAllocation ==
    \A i \in ReadsEnqueued : calls[i].mem # NullHandle

\* C30, second part: a read on a device allocation asks for no more bytes
\* than the allocation holds.
C30_ReadsWithinCapacity ==
    \A i \in ReadsEnqueued :
        calls[i].mem # NullHandle => calls[i].bytes <= memSize[calls[i].mem]

\* C30: CopyToHost never enqueues a read on a Buffer without a device
\* allocation and never asks for more bytes than the allocation's capacity.
C30_ReadWithinAllocation ==
    /\ C30_ReadsAnAllocation
    /\ C30_ReadsWithinCapacity

(***************************************************************************)
(* Kernel: the properties.                                                 *)
(***************************************************************************)

\* A Kernel call has been made and is on record.
KernelCalled == kernelExit # "idle"

\* The positions of the binds / of the launches in the record of the call.
Binds == {j \in 1 .. Len(kernelCalls) : kernelCalls[j].call = "clSetKernelArg"}
Launches ==
    {j \in 1 .. Len(kernelCalls) : kernelCalls[j].call = "clEnqueueNDRangeKernel"}

\* The launches the driver accepted: the kernel is on the command queue.
Enqueued == {j \in Launches : kernelCalls[j].ok}

\* C13: a call with k arguments binds argument i to slot i, each slot at most
\* once, in the order k-1, k-2, ..., 0 (the j-th driver call binds slot k-j
\* from argument k-j), a launch is enqueued at most once and only directly
\* after the bind of slot 0, and a call that returns has bound all k slots
\* and enqueued the launch.
C13_BindingOrder ==
    KernelCalled =>
        LET k == Len(kernelArgs) IN
        /\ \A j \in Binds :
              /\ j <= k
              /\ kernelCalls[j].slot = k - j
              /\ kernelCalls[j].size = ArgSize(kernelArgs[k - j + 1])
              /\ kernelArgs[k - j + 1].kind = "Buffer"
                    => kernelCalls[j].mem = kernelArgs[k - j + 1].val
        /\ \A j \in Launches :
              /\ j = k + 1
              /\ j = Len(kernelCalls)
              /\ kernelCalls[j - 1].call = "clSetKernelArg"
              /\ kernelCalls[j - 1].slot = 0
        /\ kernelExit = "returned" =>
              /\ Len(kernelCalls) = k + 1
              /\ Binds = 1 .. k
              /\ Launches = {k + 1}

\* C13 witness: a call with three arguments of three different kinds returned.
C13_Witness ==
    /\ ~aborted
    /\ kernelExit = "returned"
    /\ Len(kernelArgs) = 3
    /\ kernelArgs[1].kind = "Buffer"
    /\ kernelArgs[2].kind = "LocalBuffer"
    /\ kernelArgs[3].kind = "cl_float"
    /\ Len(kernelCalls) = 4

\* C14: a bind the driver answers with an error, at any slot (slot 0
\* included), aborts the process through OclCheckError, and no launch is
\* enqueued.
C14_BindFailureAborts ==
    \A j \in Binds :
        ~kernelCalls[j].ok =>
            /\ aborted
            /\ Enqueued = {}

\* C15: a call whose local_size and global_size report different
\* GetDimensions() values aborts and enqueues no launch, for every arity.
C15_DimensionMismatchRejected ==
    ( /\ KernelCalled
      /\ GetDimensions(kernelDims[1]) # GetDimensions(kernelDims[2]) )
        => /\ aborted
           /\ Launches = {}

\* C15 witness: a three-argument call bound its three arguments and then
\* failed the assertion on a 2-dimensional local and 3-dimensional global size.
C15_Witness ==
    /\ kernelExit = "assert"
    /\ Len(kernelArgs) = 3
    /\ Len(kernelCalls) = 3
    /\ GetDimensions(kernelDims[1]) = 2
    /\ GetDimensions(kernelDims[2]) = 3

\* C16: a call with a Buffer argument that has no device allocation aborts
\* and enqueues no launch (stated for the calls in which the driver accepted
\* every bind, so that a bind error plays no part).
C16_UnallocatedBufferRejected ==
    ( /\ KernelCalled
      /\ \A j \in Binds : kernelCalls[j].ok
      /\ \E i \in 1 .. Len(kernelArgs) :
            /\ kernelArgs[i].kind = "Buffer"
            /\ kernelArgs[i].val = NullHandle )
        => /\ aborted
           /\ Enqueued = {}

\* The argument kinds the text of the claim lists as bindable.
BindableKinds == {"Buffer", "LocalBuffer"} \cup ScalarTypes

\* The arguments of the call, by position, that are of no bindable kind.
Unbindable == {i \in 1 .. Len(kernelArgs) : kernelArgs[i].kind \notin BindableKinds}

\* C17: a call with an argument, at any slot, that is neither a Buffer, a
\* LocalBuffer nor one of the six scalars never enqueues its launch and ends
\* in abort; when the binding of that argument is reached (every higher slot
\* was bound) the abort is the one of Arg<T>::Set, after it printed the type.
C17_UnsupportedTypeAborts ==
    (KernelCalled /\ Unbindable # {}) =>
        LET i == CHOOSE m \in Unbindable : \A n \in Unbindable : n <= m IN
        /\ aborted
        /\ Launches = {}
        /\ \A j \in Binds : kernelCalls[j].slot >= i
        /\ (\A j \in Binds : kernelCalls[j].ok) =>
              /\ kernelExit = "abort"
              /\ diagnostic = kernelArgs[i].kind
              /\ Len(kernelCalls) = Len(kernelArgs) - i

\* C17 witness: slots 2 and 1 were bound, then the aggregate passed as
\* argument 0 made Arg<T>::Set print its type and abort.
C17_Witness ==
    /\ aborted
    /\ kernelExit = "abort"
    /\ diagnostic = "Aggregate"
    /\ Len(kernelArgs) = 3
    /\ kernelArgs[1].kind = "Aggregate"
    /\ Len(kernelCalls) = 2

(***************************************************************************)
(* Buffer<T>: device-to-device copy and fill, the properties.              *)
(***************************************************************************)

\* The last operation was CopyToDeviceBuffer / FillDeviceBuffer.
DidCopyToDeviceBuffer == lastOp.op = "CopyToDeviceBuffer"
DidFillDeviceBuffer == lastOp.op = "FillDeviceBuffer"

\* The copies / fills of the last operation that the driver accepted.
CopiesEnqueued == {i \in CallsNamed("clEnqueueCopyBuffer") : calls[i].ok}
FillsEnqueued == {i \in CallsNamed("clEnqueueFillBuffer") : calls[i].ok}

\* The size_t value is one of the small ones (no representative of 2^N + n).
Small(n) == n >= 0

\* C18: the copy CopyToDeviceBuffer enqueues goes from the source's to the
\* destination's allocation, its byte offsets are the element offsets times
\* sizeof(T) and its byte length is count times sizeof(T) (stated for a
\* count of at least one element and offsets and counts far below 2^N).
C18_CopyByteOffsets ==
    ( /\ DidCopyToDeviceBuffer
      /\ Small(lastOp.src_pos) /\ Small(lastOp.dst_pos) /\ lastOp.len > 0 )
        => \A i \in CopiesEnqueued :
              /\ calls[i].mem = device_buffer_[lastOp.buf]
              /\ calls[i].dst = device_buffer_[lastOp.dst]
              /\ calls[i].src_offset = lastOp.src_pos * sizeofT
              /\ calls[i].dst_offset = lastOp.dst_pos * sizeofT
              /\ calls[i].bytes = lastOp.len * sizeofT

\* offset + count is at most elems, as numbers (not modulo 2^N): a size_t
\* near 2^N exceeds every capacity.
Within(offset, count, elems) ==
    /\ Small(offset)
    /\ Small(count)
    /\ offset + count <= elems

\* The precondition C19 names for CopyToDeviceBuffer(dst, ...) on Buffer b.
CopyPrecondition(b, dst, dst_pos, src_pos, len) ==
    /\ device_buffer_[b] # NullHandle
    /\ device_buffer_[dst] # NullHandle
    /\ Within(src_pos, len, memSize[device_buffer_[b]] \div sizeofT)
    /\ Within(dst_pos, len, memSize[device_buffer_[dst]] \div sizeofT)

\* C19: CopyToDeviceBuffer enqueues a copy only when both Buffers have device
\* allocations and src_offset + count and dst_offset + count are each at most
\* that side's device capacity in elements; otherwise the process aborts and
\* no copy call is made.
C19_CopyWithinCapacity ==
    DidCopyToDeviceBuffer =>
        IF CopyPrecondition(lastOp.buf, lastOp.dst, lastOp.dst_pos,
                            lastOp.src_pos, lastOp.len)
        THEN TRUE
        ELSE /\ aborted
             /\ CopiesEnqueued = {}

\* C19, the part that holds: for offsets and counts far below 2^N the three
\* asserts let a copy through only within both capacities.
C19_SmallOffsetsWithinCapacity ==
    ( /\ DidCopyToDeviceBuffer
      /\ Small(lastOp.src_pos) /\ Small(lastOp.dst_pos) /\ Small(lastOp.len)
      /\ ~CopyPrecondition(lastOp.buf, lastOp.dst, lastOp.dst_pos,
                           lastOp.src_pos, lastOp.len) )
        => /\ aborted
           /\ CallsNamed("clEnqueueCopyBuffer") = {}

\* C20: FillDeviceBuffer on a Buffer without device allocation aborts: it
\* creates no allocation, enqueues no fill, and leaves the Buffer unallocated.
C20_FillRequiresAllocation ==
    [][\A b \in Buffers :
        ( /\ DidFillDeviceBuffer'
          /\ lastOp'.buf = b
          /\ device_buffer_[b] = NullHandle )
        => /\ aborted'
           /\ calls' = <<>>
           /\ device_buffer_'[b] = NullHandle
           /\ nextMem' = nextMem
           /\ memSize' = memSize
      ]_vars

\* C20 witness: a fill of two elements was asked of a Buffer that holds host
\* elements but was never copied to the device.
C20_Witness ==
    /\ aborted
    /\ DidFillDeviceBuffer
    /\ lastOp.count = 2
    /\ hsize[lastOp.buf] >= 2
    /\ device_buffer_[lastOp.buf] = NullHandle
    /\ calls = <<>>

\* C31: FillDeviceBuffer(value, count, offset) enqueues a fill only when
\* count > 0 and offset + count is at most the device capacity in elements:
\* no fill addresses bytes beyond the Buffer's device allocation (stated for
\* an offset far below 2^N and an allocation of at least one element).
C31_FillWithinCapacity ==
    (DidFillDeviceBuffer /\ Small(lastOp.offset)) =>
        \A i \in FillsEnqueued :
            /\ lastOp.count > 0
            /\ calls[i].mem # NullHandle
            /\ memSize[calls[i].mem] >= sizeofT
                  => Within(lastOp.offset, lastOp.count,
                            memSize[calls[i].mem] \div sizeofT)

\* C31, the part that holds: a fill is enqueued only with count > 0 and on
\* the Buffer's device allocation.
C31_FillNonEmptyOnAllocation ==
    DidFillDeviceBuffer =>
        \A i \in FillsEnqueued :
            /\ lastOp.count > 0
            /\ calls[i].mem # NullHandle
            /\ calls[i].mem = device_buffer_[lastOp.buf]

(***************************************************************************)
(* The command queue: the properties.                                      *)
(***************************************************************************)

\* C11: after fill host with v, CopyToDevice(), Wait(), overwrite the host
\* with zeros (size unchanged), CopyToHost(), Wait(), the host sequence
\* equals v again (the sequence being all that is on the command queue).
C11_RoundTrip ==
    roundTrip.stage = 5 => hostData[roundTrip.buf] = roundTrip.v

\* C11 witness: the sequence ran to its end on host contents of at least two
\* elements, not all zero.
C11_Witness ==
    /\ ~aborted
    /\ roundTrip.stage = 5
    /\ Len(roundTrip.v) >= 2
    /\ roundTrip.v[2] = 1
    /\ roundTrip.v[1] = 0

\* Device::Wait has just returned to its caller.
WaitReturned ==
    /\ ~aborted
    /\ Len(waitCalls) = 2

\* C12: when Device::Wait returns, every command enqueued on the Device's
\* queue before the call is complete; Wait makes exactly a clFlush and then a
\* clFinish; and the commands complete in the order they were enqueued.
C12_WaitSynchronises ==
    /\ WaitReturned =>
          /\ queue = <<>>
          /\ Len(completedCmds) = issued
          /\ waitCalls[1] = WaitCall("clFlush", TRUE)
          /\ waitCalls[2] = WaitCall("clFinish", TRUE)
    /\ Len(waitCalls) >= 1 => waitCalls[1].call = "clFlush"
    /\ Len(waitCalls) <= 2
    /\ \A i \in 1 .. Len(completedCmds) : completedCmds[i].id = i

\* C12 witness: Wait returned after a write, a kernel launch and a read had
\* been enqueued, and all three are complete.
C12_Witness ==
    /\ WaitReturned
    /\ issued = 3
    /\ Len(completedCmds) = 3
    /\ completedCmds[1].call = "clEnqueueWriteBuffer"
    /\ completedCmds[2].call = "clEnqueueNDRangeKernel"
    /\ completedCmds[3].call = "clEnqueueReadBuffer"

(***************************************************************************)
(* Dim and the launch range: the properties.                               *)
(***************************************************************************)

\* The axes of a Dim whose extent is greater than 1.
WideAxes(dim) == {a \in 1 .. 3 : dim[a] > 1}

\* C24: GetDimensions() is the number of axes among x, y, z whose extent is
\* greater than 1, for the local and the global size of every call; Dim(4)
\* gives 1, Dim(4, 4) gives 2 and Dim(4, 4, 4) gives 3.
C24_GetDimensionsCountsWideAxes ==
    /\ \A i \in 1 .. 2 :
          GetDimensions(kernelDims[i]) = Cardinality(WideAxes(kernelDims[i]))
    /\ GetDimensions(Dim1(4)) = 1
    /\ GetDimensions(Dim2(4, 4)) = 2
    /\ GetDimensions(Dim3(4, 4, 4)) = 3

\* C24 witness: a call whose local size has the extents 1, 4, 0 and whose
\* global size is Dim(4, 4), with two dimensions, reached the driver.
C24_Witness ==
    /\ KernelCalled
    /\ kernelDims[1] = <<1, 4, 0>>
    /\ kernelDims[2] = Dim2(4, 4)
    /\ GetDimensions(kernelDims[2]) = 2
    /\ kernelExit = "assert"

\* The launches enqueued after binds that all succeeded.
BoundAndEnqueued == {j \in Enqueued : \A i \in Binds : kernelCalls[i].ok}

\* C27: every launch enqueued has a work dimension above zero and, on each
\* axis the launch uses, a global and a local extent above zero.
C27_NoZeroLaunchRange ==
    \A j \in BoundAndEnqueued :
        /\ kernelCalls[j].work_dim > 0
        /\ \A a \in 1 .. kernelCalls[j].work_dim :
              /\ kernelCalls[j].global_work_size[a] > 0
              /\ kernelCalls[j].local_work_size[a] > 0

\* The work-items of a launch: the product of the first work_dim entries of
\* the global_work_size array, which are the entries the driver reads.
RECURSIVE WorkItems(_, _)
WorkItems(array, work_dim) ==
    IF work_dim = 0 THEN 1 ELSE array[work_dim] * WorkItems(array, work_dim - 1)

\* C28: for a global size with non-zero extents (and a local size with
\* non-zero extents), the launch enqueued covers exactly x*y*z global
\* work-items.
C28_LaunchCoversGlobalSize ==
    \A j \in BoundAndEnqueued :
        LET global_size == kernelDims[2] IN
        (\A a \in 1 .. 3 : global_size[a] > 0 /\ kernelDims[1][a] > 0) =>
            WorkItems(kernelCalls[j].global_work_size, kernelCalls[j].work_dim)
            = global_size[1] * global_size[2] * global_size[3]

\* C28, the part that holds: when every extent above 1 comes before every
\* extent of 1, as in Dim(X), Dim(X, Y), Dim(X, Y, Z) with X, Y, Z > 1, the
\* launch covers x*y*z work-items.
C28_LeadingAxesCovered ==
    \A j \in BoundAndEnqueued :
        LET global_size == kernelDims[2] IN
        (/\ \A a \in 1 .. 3 : global_size[a] > 0
         /\ WideAxes(global_size) = 1 .. GetDimensions(global_size)) =>
            WorkItems(kernelCalls[j].global_work_size, kernelCalls[j].work_dim)
            = global_size[1] * global_size[2] * global_size[3]

(***************************************************************************)
(* Device: platform selection and destruction, the properties.             *)
(***************************************************************************)

\* How often the destructors released the handle through the call named.
ReleasesIn(log, name, handle) ==
    Cardinality({k \in 1 .. Len(log) : log[k] = ReleaseCall(name, handle)})

\* C21: every destroyed Device's command queue and context were each
\* released exactly once.
C21_DestroyReleases ==
    \A i \in DOMAIN devObjects :
        ~devObjects[i].alive =>
            /\ ReleasesIn(deviceReleases, "clReleaseCommandQueue",
                          devObjects[i].queue) = 1
            /\ ReleasesIn(deviceReleases, "clReleaseContext",
                          devObjects[i].context) = 1

\* The first platform, in enumeration order, of an allow-listed vendor.
Matching == {i \in DOMAIN vendors : vendors[i] \in AllowList}
FirstMatch ==
    IF Matching = {} THEN NullHandle
    ELSE CHOOSE i \in Matching : \A j \in Matching : i <= j

\* C22: the platform a construction goes on with, and every Device is
\* built on, is the first one of an allow-listed vendor.
C22_FirstMatchingPlatform ==
    /\ \A t \in Threads :
          platform_use[t] # NullHandle => platform_use[t] = FirstMatch
    /\ \A i \in DOMAIN devObjects : devObjects[i].platform = FirstMatch

\* C22, the part that holds: the platform used is of an allow-listed vendor.
C22_PlatformAllowListed ==
    /\ \A t \in Threads :
          platform_use[t] # NullHandle => platform_use[t] \in Matching
    /\ \A i \in DOMAIN devObjects : devObjects[i].platform \in Matching

\* C23: with no platform of an allow-listed vendor, a construction that was
\* started has aborted, with no device enumerated, the DeviceSelector
\* registry untouched and no context or queue created.
C23_NoMatchAborts ==
    Matching = {} =>
        /\ platformCalls # <<>> => aborted
        /\ \A t \in Threads :
              /\ pc[t] \in {"idle", "aborted"}
              /\ platform_use[t] = NullHandle
              /\ device_count[t] = 0
        /\ constructions = 0
        /\ lock_ = NoThread
        /\ ids_ = <<>>
        /\ next_ = 0
        /\ devObjects = <<>>

\* C23 witness: two platforms, neither allow-listed; every driver call of
\* the selection succeeded, and the process aborted.
C23_Witness ==
    /\ Len(vendors) = 2
    /\ Matching = {}
    /\ Len(platformCalls) = 4
    /\ \A k \in DOMAIN platformCalls : platformCalls[k].ok
    /\ aborted

(***************************************************************************)
(* Program: the properties.                                                *)
(***************************************************************************)

\* The last operation was a Program construction.
DidConstructProgram ==
    /\ programCalls # <<>>
    /\ programCalls[1].call = "clCreateProgramWithSource"

\* clBuildProgram returned CL_BUILD_PROGRAM_FAILURE in that construction.
BuildFailed ==
    /\ DidConstructProgram
    /\ Len(programCalls) >= 2
    /\ programCalls[2].status = "CL_BUILD_PROGRAM_FAILURE"

\* The construction ended in exactly one of the two ways: the program was
\* created and built and the object exists, or the process aborted; and
\* every Program object there is was built.
BuiltOrAborted ==
    /\ DidConstructProgram =>
          (aborted <=> ~(/\ Len(programCalls) = 2
                         /\ programCalls[1].status = "CL_SUCCESS"
                         /\ programCalls[2].status = "CL_SUCCESS"))
    /\ \A i \in DOMAIN programs : programs[i].build = "CL_SUCCESS"

\* C25 as stated: the construction ends built or aborted, no Program is
\* unbuilt, and after a build failure the process aborted with the build log
\* retrieved and printed.
C25_BuildFailureLogged ==
    /\ BuiltOrAborted
    /\ BuildFailed =>
          /\ aborted
          /\ Len(programCalls) = 4
          /\ programOut = BuildLogPrinted(programCalls[4].text)

\* C25 as the code has it: after a build failure the process aborted, and
\* the build log was printed when both clGetProgramBuildInfo calls
\* succeeded; when one of them failed nothing of the log was printed.
C25_BuildFailureLoggedIfRetrieved ==
    /\ BuiltOrAborted
    /\ BuildFailed =>
          /\ aborted
          /\ Len(programCalls) \in {3, 4}
          /\ IF \A k \in {3, 4} \cap DOMAIN programCalls :
                   programCalls[k].status = "CL_SUCCESS"
             THEN /\ Len(programCalls) = 4
                  /\ programOut = BuildLogPrinted(programCalls[4].text)
             ELSE programOut = <<>>

\* C25 witness: the second Program's build failed, the log was retrieved
\* and printed, and the process aborted; the first Program exists, built.
C25_Witness ==
    /\ BuildFailed
    /\ aborted
    /\ Len(programs) = 1
    /\ Len(programCalls) = 4
    /\ programCalls[4].status = "CL_SUCCESS"
    /\ programCalls[4].text # ""
    /\ programOut = BuildLogPrinted(programCalls[4].text)

(***************************************************************************)
(* The event-tracking Device: the properties.                              *)
(***************************************************************************)

\* The operations that enqueue a command.
EnqueueOps == {"CopyToHost", "CopyToDevice", "Kernel"}

\* The events a sequence holds.
EventsOf(events) == {events[i] : i \in DOMAIN events}

\* C29: a CopyToHost, CopyToDevice or Kernel call that returned added exactly
\* one event, the one its enqueue handed out, to recent_events_; a Wait()
\* that returned found every tracked event complete, released each exactly
\* once and left recent_events_ empty, and with nothing tracked it made no
\* driver call; no event is ever released twice.
C29_EventsTrackedAndWaited ==
    /\ (eventOp.op \in EnqueueOps /\ ~aborted) =>
          /\ recent_events_ = Append(eventOp.tracked, eventsMade)
          /\ eventsMade \notin EventsOf(eventOp.tracked)
          /\ eventCalls[Len(eventCalls)].events = <<eventsMade>>
          /\ \A i \in 1 .. (Len(eventCalls) - 1) : eventCalls[i].events = <<>>
    /\ (eventOp.op = "Wait" /\ ~aborted) =>
          /\ recent_events_ = <<>>
          /\ \A e \in EventsOf(eventOp.tracked) :
                /\ e \in eventsDone
                /\ eventReleases[e] = 1
          /\ eventOp.tracked = <<>> => eventCalls = <<>>
          /\ eventOp.tracked # <<>> =>
                eventCalls[1] = EventCall("clWaitForEvents", eventOp.tracked, TRUE)
    /\ \A e \in DOMAIN eventReleases :
          /\ eventReleases[e] <= 1
          /\ (eventReleases[e] = 1 /\ ~aborted) =>
                e \notin EventsOf(recent_events_)

\* C29 witness: Wait() returned after waiting for three tracked events and
\* releasing them.
C29_Witness ==
    /\ ~aborted
    /\ eventOp.op = "Wait"
    /\ Len(eventOp.tracked) = 3
    /\ Len(eventCalls) = 4
    /\ \A e \in 1 .. 3 : eventReleases[e] = 1

(***************************************************************************)
(* Buffer<T>: host storage under pending transfers, the properties.        *)
(***************************************************************************)

\* The transfers of at least one byte, on a memory object, that are enqueued
\* and not yet complete.
PendingTransfers ==
    {i \in DOMAIN queue : /\ queue[i].call.call \in Transfers
                          /\ queue[i].call.bytes > 0
                          /\ queue[i].call.mem # NullHandle}

\* C32, first part: the host address a pending transfer holds is the live
\* storage of its Buffer.
C32_PendingStorageLive ==
    \A i \in PendingTransfers :
        LiveStorage(queue[i].op.buf, hostPtr[queue[i].id])

\* C32, second part: no transfer ran on host storage that was reallocated or
\* freed.
C32_NoStaleAccess == hostAccess = {}

\* C32: while a transfer enqueued by CopyToDevice or CopyToHost is pending,
\* the host address it holds stays the live storage of its Buffer, under
\* every interleaving of resize, push_back, assignment and destruction, so no
\* transfer reads or writes host memory that was reallocated or freed.
C32_HostStorageStaysLive ==
    /\ C32_PendingStorageLive
    /\ C32_NoStaleAccess

(***************************************************************************)
(* Buffer<T>: copy construction and assignment, the properties.            *)
(***************************************************************************)

\* The step was the operation op of Buffer b with the Buffer other.
Did(op, b, other) == storeOp' = StoreOp(op, b, other)

\* Every Buffer but b keeps its host contents.
OthersKeepContents(b) ==
    \A c \in Buffers \ {b} : hostData'[c] = hostData[c] /\ hsize'[c] = hsize[c]

\* No two live Buffers hold the same device allocation handle.
HandlesDistinct ==
    \A b \in Buffers : \A c \in Buffers \ {b} :
        (alive[b] /\ alive[c] /\ device_buffer_[b] # NullHandle)
            => device_buffer_[b] # device_buffer_[c]

\* C33: operator= changes only the destination's host contents, which become
\* the source's: every Buffer keeps its Device reference and its device
\* allocation handle, the source is unchanged and the driver is not called;
\* a copy-constructed Buffer has the source's contents and Device and no
\* device allocation; and no two Buffers ever hold the same device
\* allocation handle.
C33_AssignCopiesHostOnly ==
    /\ []HandlesDistinct
    /\ [][\A b \in Buffers : \A other \in Buffers :
            /\ Did("operator=", b, other)
                 => /\ hostData'[b] = hostData[other]
                    /\ hsize'[b] = hsize[other]
                    /\ OthersKeepContents(b)
                    /\ device_' = device_
                    /\ device_buffer_' = device_buffer_
                    /\ alive' = alive
                    /\ memSize' = memSize
                    /\ memReleases' = memReleases
                    /\ nextMem' = nextMem
                    /\ calls' = <<>>
            /\ Did("Buffer(const Buffer &)", b, other)
                 => /\ hostData'[b] = hostData[other]
                    /\ OthersKeepContents(b)
                    /\ device_'[b] = device_[other]
                    /\ device_buffer_'[b] = NullHandle
                    /\ \A c \in Buffers \ {b} :
                          /\ device_'[c] = device_[c]
                          /\ device_buffer_'[c] = device_buffer_[c]
                    /\ calls' = <<>>
       ]_vars

\* C33 witness: Buffer 1 was just assigned from Buffer 2; the two are on
\* different Devices, each holds a device allocation, the allocation of
\* Buffer 1 is smaller than the two elements it now holds.
C33_Witness ==
    /\ storeOp = StoreOp("operator=", 1, 2)
    /\ ~aborted
    /\ device_[1] = 1
    /\ device_[2] = 2
    /\ device_buffer_[1] # NullHandle
    /\ device_buffer_[2] # NullHandle
    /\ hostData[1] = <<1, 1>>
    /\ hostData[2] = <<1, 1>>
    /\ memSize[device_buffer_[1]] = sizeofT

====
